---- MODULE Spec2Model ----
(***************************************************************************)
(* A model of the mOS control core (mOS/mos.c): the LWK CPU partition      *)
(* (lwkcpus_map, utility_cpus_map, lwkcpus_reserved_map, the per-CPU       *)
(* mos_syscall_mask and lwkcpus_mask), the per-process records             *)
(* (struct mos_process_t) and the operations that change them.             *)
(*                                                                         *)
(* The operations that take mos_sysfs_mutex (mos_sysfs_mask_write,         *)
(* lwk_config_store and with it lwk_config_lwkcpus, mos_exit_thread) run   *)
(* from their first read to their last write without another one in       *)
(* between, so each is one atomic action.  lwkcpus_sequence_store and      *)
(* lwk_options_store take no lock: the first is modelled both as one       *)
(* action and step by step (SpecRace), the second as one action.  The      *)
(* registration functions are called by LWK components while the system    *)
(* starts.  The mutex itself, with the paths on which each of these       *)
(* operations leaves, is modelled apart from the data (SpecMutex).         *)
(*                                                                         *)
(* Text is modelled as a sequence of one-character strings.  Memory        *)
(* allocation failures (vmalloc, kstrdup, zalloc_cpumask_var) are not      *)
(* modelled in the data: every allocation succeeds there.                  *)
(***************************************************************************)
EXTENDS Integers, Sequences, FiniteSets, TLC

\* ------------------------------------------------------------------ bounds

\* Highest CPU id of the machine (nr_cpu_ids - 1).
MaxCpu == 14

\* Number of processes (thread groups) that use the control files.
NumProcs == 2

\* Most threads alive at once in one process.
MaxThreads == 2

\* Longest lwkcpus= text enumerated character by character.
MaxParamLen == 3

\* Most operations in one run.
MaxSteps == 4

\* Number of distinct callback sets (struct mos_process_callbacks_t) that
\* LWK components can register.
NumCallbackSets == 3

\* Number of distinct option callback functions.
NumOptionCallbacks == 2

\* Most entries in each of the two callback lists.
MaxCallbacks == 2

\* Most registrations made on one callback list.
MaxSerial == 3

CPUs == 0..MaxCpu
Procs == 1..NumProcs

\* ------------------------------------------------------------- error codes

EINVAL == 22
EBUSY == 16
ENOMEM == 12

\* The null pointer (current->mos_process of a task without a record).
NULL == [null |-> TRUE]

\* --------------------------------------------------------------------- text

DigitChars == {"0", "1", "2", "3", "4", "5", "6", "7", "8", "9"}

\* c - '0'
DigitVal(c) == CHOOSE d \in 0..9 : ToString(d) = c

RECURSIVE NumVal(_)
\* b = b * 10 + (c - '0') over the digits of s.
NumVal(s) ==
    IF s = <<>> THEN 0
    ELSE NumVal(SubSeq(s, 1, Len(s) - 1)) * 10 + DigitVal(s[Len(s)])

IsNumber(s) == Len(s) > 0 /\ \A i \in 1..Len(s) : s[i] \in DigitChars

\* A char pointer that is NULL: a text that is none of the texts written.
NoText == <<"(null)">>

\* strchr: index of the first c in s, 0 when there is none.
strchr(s, c) ==
    IF \E i \in 1..Len(s) : s[i] = c
    THEN CHOOSE i \in 1..Len(s) : s[i] = c /\ \A j \in 1..(i - 1) : s[j] # c
    ELSE 0

RECURSIVE strsep(_, _)
\* All the tokens successive strsep(&s, delim) calls return: the text between
\* delimiters, empty tokens included; the empty text yields one empty token.
strsep(s, delim) ==
    LET i == strchr(s, delim) IN
    IF i = 0 THEN <<s>>
    ELSE <<SubSeq(s, 1, i - 1)>> \o strsep(SubSeq(s, i + 1, Len(s)), delim)

\* One "a" or "a-b" item of a CPU list: [ok, a, b].
cpulist_item(item) ==
    LET dash == strchr(item, "-")
        lo == SubSeq(item, 1, dash - 1)
        hi == SubSeq(item, dash + 1, Len(item))
    IN  IF dash = 0
        THEN IF IsNumber(item)
             THEN [ok |-> TRUE, a |-> NumVal(item), b |-> NumVal(item)]
             ELSE [ok |-> FALSE, a |-> 0, b |-> 0]
        ELSE IF IsNumber(lo) /\ IsNumber(hi)
             THEN [ok |-> TRUE, a |-> NumVal(lo), b |-> NumVal(hi)]
             ELSE [ok |-> FALSE, a |-> 0, b |-> 0]

\* cpulist_parse(buf, mask): comma separated CPU ids and ranges.  Empty items
\* are skipped; a malformed item, a > b, or an id beyond the last CPU fails.
\* Every caller discards the mask of a failed parse, so it is given as empty.
cpulist_parse(s) ==
    LET items == strsep(s, ",")
        used == {i \in 1..Len(items) : items[i] # <<>>}
        r(i) == cpulist_item(items[i])
        good == \A i \in used : r(i).ok /\ r(i).a <= r(i).b /\ r(i).b <= MaxCpu
    IN  IF good
        THEN [rc |-> 0, mask |-> UNION {r(i).a .. r(i).b : i \in used}]
        ELSE [rc |-> -EINVAL, mask |-> {}]

\* One group of an lwkcpus= value: the text before the first '.' is the
\* syscall target list (s_to), the text after it the LWK CPU list (s_from);
\* without a '.' the whole group is the LWK CPU list and s_to is empty.
split_group(g) ==
    LET dot == strchr(g, ".") IN
    IF dot = 0 THEN [s_to |-> <<>>, s_from |-> g]
    ELSE [s_to |-> SubSeq(g, 1, dot - 1), s_from |-> SubSeq(g, dot + 1, Len(g))]

\* The groups of an lwkcpus= value, in order, each with both lists parsed.
spec_groups(param_value) ==
    LET gs == strsep(param_value, ":") IN
    [i \in 1..Len(gs) |->
        LET sg == split_group(gs[i]) IN
        [to |-> cpulist_parse(sg.s_to), from |-> cpulist_parse(sg.s_from)]]

\* ------------------------------------------------------------------ inputs

ParamChars == {"1", "2", "3", ",", "-", ".", ":"}

\* Every text of exactly n characters over ParamChars.
RECURSIVE TextsOfLen(_)
TextsOfLen(n) ==
    IF n = 0 THEN {<<>>}
    ELSE {Append(s, c) : s \in TextsOfLen(n - 1), c \in ParamChars}

\* The example of the comment above lwk_config_lwkcpus: 1.2-7,9:10.11,13,14
ExampleParam ==
    <<"1", ".", "2", "-", "7", ",", "9", ":",
      "1", "0", ".", "1", "1", ",", "1", "3", ",", "1", "4">>

\* Longer lwkcpus= values: the example, groups with two targets in each
\* position, targets without LWK CPUs, overlaps, and groups without a target
\* next to groups with one.
LongParams ==
    { ExampleParam,
      <<"1", ",", "2", ".", "3">>,
      <<"1", ",", "2", ".", "3", ":", "4">>,
      <<"4", ":", "1", ",", "2", ".", "3">>,
      <<"4", ":", "1", "-", "2", ".", "3", ":", "5">>,
      <<"1", ",", "2", ".">>,
      <<"1", ",", "2", ".", ":", "3">>,
      <<"1", ".", "2", ":", "3">>,
      <<"1", ".", "2", ",", "3">>,
      <<"1", ".", "2", ":", "1", ".", "3">>,
      <<"1", ".", "2", ":", "3", ".", "2">>,
      <<"1", ".", "2", ":", "2", ".", "3">>,
      <<"3", ".", "1", "-", "2", ":", "4", "-", "5">>,
      <<"0", ".", "1", "2", "-", "1", "4">>,
      <<"1", ".", "2", ".", "3">>,
      <<"2", "-", "3", ":">> }

\* The lwkcpus= values written as the first operation of SpecParse.
ParseParams ==
    UNION {TextsOfLen(n) : n \in 0..MaxParamLen} \cup LongParams

\* The lwkcpus= values written while processes come and go: the release
\* sentinel, a partition with a syscall target, one without, one with another
\* target, and a value that validate_lwkcpus_spec rejects.
MainParams ==
    { <<>>,
      <<"1", ".", "2", "-", "3">>,
      <<"3">>,
      <<"2", ".", "3">>,
      <<"2", ".", "2">> }

\* Texts written to lwkcpus_request and lwkcpus_reserved ("," is a list
\* without CPUs, "-" does not parse, CPU 1 is never an LWK CPU here).
RequestBufs ==
    { <<",">>, <<"2">>, <<"3">>, <<"2", "-", "3">>, <<"1", ",", "3">>, <<"-">> }

\* Each text parsed once: the groups of every lwkcpus= value and the mask of
\* every request.
parsed_groups == [s \in ParseParams \cup MainParams |-> spec_groups(s)]
parsed_request == [buf \in RequestBufs |-> cpulist_parse(buf)]

\* ---------------------------------------------------------------- state

VARIABLES
    lwkcpus_map,            \* the LWK (reserved domain) CPUs
    utility_cpus_map,       \* the syscall target (utility) CPUs
    lwkcpus_reserved_map,   \* the LWK CPUs reserved by processes
    mos_syscall_mask,       \* per CPU: the CPUs its system calls are shipped to
    lwkcpus_mask,           \* per CPU: that CPU's copy of the LWK CPU set
    cpu_online_mask,        \* the CPUs online in Linux
    mos_process,            \* per process: current->mos_process, a record or NULL
    mos_process_callbacks,  \* the list of registered process callback sets
    mos_process_option_callbacks,   \* the list of registered option callbacks
    lwkcpus_sequence_writer,    \* per process: its lwkcpus_sequence_store in progress
    mos_sysfs_mutex,        \* the task that holds mos_sysfs_mutex, 0 for none
    task,                   \* per task: where it is in a handler that locks
    lwkmem_static_enabled,  \* whether the LWK memory was designated at boot
    lwkmem_partition,       \* the LWK memory partition: its lwkmem= value
    lwkctrl_cpus_spec,      \* the lwkcpus= value that lwk_config shows
    lwkctrl_cpu_profile_spec,   \* the lwkcpu_profile= value that lwk_config shows
    lwkauto,                \* the auto= value that lwk_config shows, or NoText
    op,                     \* the last operation: its input, result and pre-state
    steps                   \* the number of operations so far

partVars == <<lwkcpus_map, utility_cpus_map, lwkcpus_reserved_map,
              mos_syscall_mask, lwkcpus_mask>>
\* The two callback lists.
cbVars == <<mos_process_callbacks, mos_process_option_callbacks>>
\* What lwk_config_store keeps next to the partition state.
ctlVars == <<lwkmem_static_enabled, lwkmem_partition, lwkctrl_cpus_spec,
             lwkctrl_cpu_profile_spec, lwkauto>>
vars == <<lwkcpus_map, utility_cpus_map, lwkcpus_reserved_map, mos_syscall_mask,
          lwkcpus_mask, cpu_online_mask, mos_process, mos_process_callbacks,
          mos_process_option_callbacks, lwkcpus_sequence_writer,
          lwkmem_static_enabled, lwkmem_partition, lwkctrl_cpus_spec,
          lwkctrl_cpu_profile_spec, lwkauto, op, steps, mos_sysfs_mutex,
          task>>

\* The partition state as one value.
PartitionMap ==
    [lwkcpus_map |-> lwkcpus_map,
     utility_cpus_map |-> utility_cpus_map,
     lwkcpus_reserved_map |-> lwkcpus_reserved_map,
     mos_syscall_mask |-> mos_syscall_mask,
     lwkcpus_mask |-> lwkcpus_mask]

\* The partition state after boot: no partition, every mask zero.
BootPartitionMap ==
    [lwkcpus_map |-> {}, utility_cpus_map |-> {}, lwkcpus_reserved_map |-> {},
     mos_syscall_mask |-> [c \in CPUs |-> {}],
     lwkcpus_mask |-> [c \in CPUs |-> {}]]

NoOp ==
    [name |-> "none", proc |-> 0, param |-> <<>>, rc |-> 0, ras |-> "",
     hooks |-> <<>>, pre |-> BootPartitionMap, prev |-> NULL,
     claimed |-> [p \in Procs |-> {}]]

\* Whether the operation named name with input param, coming right after
\* operation o, forms with it one of the two-step cases that are observed: a
\* request right after a granted request, or a release right after a
\* successful partition create.
IsPair(o, name, param) ==
    \/ /\ name = "lwkcpus_request_store"
       /\ o.name = "lwkcpus_request_store"
       /\ o.rc >= 0
    \/ /\ name = "lwk_config_lwkcpus"
       /\ param = <<>>
       /\ o.name = "lwk_config_lwkcpus"
       /\ o.param # <<>>
       /\ o.rc = 0

\* The CPUs that each process has been granted since its record was created,
\* as they stand after the operation named name of process proc with input
\* param returned rc: a granted request adds its CPUs, and the set of a
\* process starts empty again once the operation that freed its record has
\* been observed.
Claimed(name, proc, param, rc) ==
    LET kept == [p \in Procs |->
                    IF /\ op.name = "mos_exit_thread"
                       /\ op.proc = p
                       /\ mos_process[p] = NULL
                    THEN {} ELSE op.claimed[p]]
    IN  [p \in Procs |->
            IF name = "lwkcpus_request_store" /\ proc = p /\ rc >= 0
            THEN kept[p] \cup cpulist_parse(param).mask
            ELSE kept[p]]

\* The record of an operation: its name, the process that ran it, the text it
\* was given, its return code, the RAS message it raised, the partition hooks
\* it called, the partition state it started from, for the second operation
\* of an observed pair the record of the first, and the CPUs granted to each
\* process so far.
OpRecord(name, proc, param, rc, ras, hooks) ==
    [name |-> name, proc |-> proc, param |-> param, rc |-> rc, ras |-> ras,
     hooks |-> hooks, pre |-> PartitionMap,
     prev |-> IF IsPair(op, name, param) THEN [op EXCEPT !.prev = NULL]
              ELSE NULL,
     claimed |-> Claimed(name, proc, param, rc)]

\* An operation that is counted: none starts once MaxSteps have run.
Step(name, proc, param, rc, ras, hooks) ==
    /\ steps < MaxSteps
    /\ steps' = steps + 1
    /\ op' = OpRecord(name, proc, param, rc, ras, hooks)
    /\ UNCHANGED <<mos_sysfs_mutex, task>>

\* ------------------------------------------------- validate_lwkcpus_spec

\* A validation that lets a group have several syscall targets.
ambiguous_target_mut(to, from) == FALSE

\* "Maximum of one syscall target CPU allowed per LWKCPU range"
ambiguous_target(to, from) == Cardinality(to) > 1 /\ from # {}

\* A validation that does not look at the online CPUs.
overlaps_online_mut(new_lwkcpus, online) == FALSE

\* The candidate LWK CPUs must all be offline in Linux.
overlaps_online(new_lwkcpus, online) == new_lwkcpus \cap online # {}

\* A validation that lets a CPU be both an LWK CPU and a syscall target.
overlaps_syscallcpus_mut(new_lwkcpus, new_syscallcpus) == FALSE

\* No CPU may be both an LWK CPU and a syscall target.
overlaps_syscallcpus(new_lwkcpus, new_syscallcpus) ==
    new_lwkcpus \cap new_syscallcpus # {}

RECURSIVE validate_loop(_, _, _, _)
\* The while loop over the groups from group i on: the first group that does
\* not parse, or that has several targets for a non-empty range, ends it.
validate_loop(groups, i, new_lwkcpus, new_syscallcpus) ==
    IF i > Len(groups)
    THEN [ras |-> "", new_lwkcpus |-> new_lwkcpus,
          new_syscallcpus |-> new_syscallcpus]
    ELSE LET to == groups[i].to
             from == groups[i].from
         IN  IF to.rc < 0 \/ from.rc < 0
             THEN [ras |-> "Invalid character in CPU specification.",
                   new_lwkcpus |-> new_lwkcpus,
                   new_syscallcpus |-> new_syscallcpus]
             ELSE IF ambiguous_target(to.mask, from.mask)
             THEN [ras |-> "More than one syscall target CPU specified.",
                   new_lwkcpus |-> new_lwkcpus,
                   new_syscallcpus |-> new_syscallcpus]
             ELSE validate_loop(groups, i + 1, new_lwkcpus \cup from.mask,
                                new_syscallcpus \cup to.mask)

\* The loop of validate_lwkcpus_spec run once over every lwkcpus= value.
validated ==
    [s \in DOMAIN parsed_groups |-> validate_loop(parsed_groups[s], 1, {}, {})]

\* What validate_lwkcpus_spec returns when its loop ended as l: a failure of
\* the loop, or else the two overlap checks on the sets the loop built.
validate_overlaps(l, online) ==
    IF l.ras # "" THEN [rc |-> -1, ras |-> l.ras]
    ELSE IF overlaps_online(l.new_lwkcpus, online)
    THEN [rc |-> -1, ras |-> "Overlap detected. LWK CPUs / Online CPUs."]
    ELSE IF overlaps_syscallcpus(l.new_lwkcpus, l.new_syscallcpus)
    THEN [rc |-> -1, ras |-> "Overlap detected. LWK CPUs / syscall CPUs."]
    ELSE [rc |-> 0, ras |-> ""]

\* validate_lwkcpus_spec: [rc, ras]; rc = 0 accepts the value.
validate_lwkcpus_spec(lwkcpus_parm, online) ==
    validate_overlaps(validated[lwkcpus_parm], online)

\* --------------------------------------------------- lwk_config_lwkcpus

\* A configuration that can be modified while it exists.
config_locked_mut(map, return_cpus) == FALSE

\* An existing configuration can be returned but not modified.
config_locked(map, return_cpus) == map # {} /\ ~return_cpus

\* A return of the CPUs that leaves their syscall masks as they are.
returned_routes_mut(map) == <<>>

\* Returning CPUs: the syscall masks written, one per configured LWK CPU,
\* each holding that CPU alone.
returned_routes(map) == [c \in map |-> {c}]

\* A group without a target leaves its CPUs with an empty syscall mask.
syscall_target_mut(cpu, to) == to

\* The mask written for LWK CPU cpu of a group with targets to.
syscall_target(cpu, to) == IF to = {} THEN {cpu} ELSE to

RECURSIVE config_loop(_, _, _, _, _)
\* The while loop over the groups from group i on: routes holds the syscall
\* masks written so far (a later group overwrites an earlier one), and the
\* two new sets are built up.
config_loop(groups, i, routes, new_lwkcpus, new_utilcpus) ==
    IF i > Len(groups)
    THEN [routes |-> routes, new_lwkcpus |-> new_lwkcpus,
          new_utilcpus |-> new_utilcpus]
    ELSE LET to == groups[i].to.mask
             from == groups[i].from.mask
         IN  config_loop(groups, i + 1,
                 [c \in DOMAIN routes \cup from |->
                     IF c \in from THEN syscall_target(c, to) ELSE routes[c]],
                 new_lwkcpus \cup from, new_utilcpus \cup to)

\* The loop of lwk_config_lwkcpus run once over every lwkcpus= value.
configured ==
    [s \in DOMAIN parsed_groups |->
        config_loop(parsed_groups[s], 1, <<>>, {}, {})]

\* The per-CPU syscall masks after the masks in routes were written.
write_syscall_mask(mask, routes) ==
    [c \in CPUs |-> IF c \in DOMAIN routes THEN routes[c] ELSE mask[c]]

\* The masks are replaced whatever the hooks returned.
commit_allowed_mut(rc) == TRUE

\* The masks are replaced only when no hook failed.
commit_allowed(rc) == rc = 0

\* The hooks' return codes: success or failure.
HookRcs == {0, -1}

\* A call of a partition hook and what it returned.
Hook(name, rc) == [hook |-> name, rc |-> rc]

\* The partition hooks lwk_config_lwkcpus calls and the rc they leave, when
\* the CPUs back_to_linux are returned and new_lwkcpus are taken: rc starts
\* at -1, lwkcpu_state_deinit runs only after a successful destroy, and the
\* result of lwkcpu_state_init is only logged.
partition_hooks(back_to_linux, new_lwkcpus, destroy_rc, create_rc) ==
    LET destroyed ==
            IF back_to_linux = {} THEN [rc |-> -1, hooks |-> <<>>]
            ELSE IF destroy_rc = 0
            THEN [rc |-> 0,
                  hooks |-> <<Hook("lwkcpu_partition_destroy", 0),
                              Hook("lwkcpu_state_deinit", 0)>>]
            ELSE [rc |-> destroy_rc,
                  hooks |-> <<Hook("lwkcpu_partition_destroy", destroy_rc)>>]
    IN  IF new_lwkcpus = {} THEN destroyed
        ELSE [rc |-> create_rc,
              hooks |-> destroyed.hooks \o
                        <<Hook("lwkcpu_state_init", 0),
                          Hook("lwkcpu_partition_create", create_rc)>>]

\* The end of lwk_config_lwkcpus from partition state pm, when the loop (or
\* the return of the CPUs) gave l and the hooks gave h: the syscall masks
\* and the per-CPU copies are already written, the two maps are replaced
\* only if the hooks allow it.
commit_config(pm, l, h) ==
    [rc |-> IF commit_allowed(h.rc) THEN 0 ELSE h.rc,
     ras |-> "",
     hooks |-> h.hooks,
     pm |-> [lwkcpus_map |-> IF commit_allowed(h.rc) THEN l.new_lwkcpus
                             ELSE pm.lwkcpus_map,
             utility_cpus_map |-> IF commit_allowed(h.rc) THEN l.new_utilcpus
                                  ELSE pm.utility_cpus_map,
             lwkcpus_reserved_map |-> pm.lwkcpus_reserved_map,
             mos_syscall_mask |-> write_syscall_mask(pm.mos_syscall_mask,
                                                     l.routes),
             lwkcpus_mask |-> [c \in CPUs |-> l.new_lwkcpus]]]

\* lwk_config_lwkcpus left at "out" before anything was written.
config_rejected(pm, ras) ==
    [rc |-> -1, ras |-> ras, hooks |-> <<>>, pm |-> pm]

\* lwk_config_lwkcpus for a value that is not the empty one, validated as v.
config_create(param_value, pm, v, destroy_rc, create_rc) ==
    IF v.rc # 0 THEN config_rejected(pm, v.ras)
    ELSE commit_config(pm, configured[param_value],
             partition_hooks({}, configured[param_value].new_lwkcpus,
                             destroy_rc, create_rc))

\* lwk_config_lwkcpus for the empty value: the LWK CPUs go back to Linux.
config_return(pm, destroy_rc, create_rc) ==
    commit_config(pm,
        [routes |-> returned_routes(pm.lwkcpus_map),
         new_lwkcpus |-> {}, new_utilcpus |-> {}],
        partition_hooks(pm.lwkcpus_map, {}, destroy_rc, create_rc))

\* lwk_config_lwkcpus(param_value, NULL) from partition state pm with the CPUs
\* in online online, when lwkcpu_partition_destroy would return destroy_rc
\* and lwkcpu_partition_create create_rc.  Gives the return code, the RAS
\* message, the hooks called and the new partition state.
config_lwkcpus(param_value, pm, online, destroy_rc, create_rc) ==
    IF config_locked(pm.lwkcpus_map, param_value = <<>>)
    THEN config_rejected(pm,
             "Attempt to modify existing LWKCPU configuration.")
    ELSE IF param_value = <<>>
    THEN config_return(pm, destroy_rc, create_rc)
    ELSE config_create(param_value, pm,
                       validate_lwkcpus_spec(param_value, online),
                       destroy_rc, create_rc)

\* The state after a call of lwk_config_lwkcpus that ended as r.
config_done(param_value, r) ==
    /\ lwkcpus_map' = r.pm.lwkcpus_map
    /\ utility_cpus_map' = r.pm.utility_cpus_map
    /\ lwkcpus_reserved_map' = r.pm.lwkcpus_reserved_map
    /\ mos_syscall_mask' = r.pm.mos_syscall_mask
    /\ lwkcpus_mask' = r.pm.lwkcpus_mask
    /\ Step("lwk_config_lwkcpus", 0, param_value, r.rc, r.ras, r.hooks)
    /\ UNCHANGED <<cpu_online_mask, ctlVars, mos_process, cbVars,
                   lwkcpus_sequence_writer>>

\* The action: one call of lwk_config_lwkcpus(param_value, NULL).
lwk_config_lwkcpus(param_value) ==
    \E destroy_rc \in HookRcs, create_rc \in HookRcs :
        config_done(param_value,
            config_lwkcpus(param_value, PartitionMap, cpu_online_mask,
                           destroy_rc, create_rc))

\* ------------------------------------------------------- callback lists

\* The callback sets LWK components register; 0 stands for a NULL pointer.
CallbackSets == 1..NumCallbackSets

\* Whether the function pointer hook of callback set cbs is non-NULL: the
\* last set has a mos_process_init function only, the others have all four.
implements(cbs, hook) == cbs # NumCallbackSets \/ hook = "mos_process_init"

\* The number of the next registration on a list: one more than the latest
\* registration still on it.  This records the order of registration; the
\* code keeps no such number.
next_serial(list) ==
    IF list = <<>> THEN 1
    ELSE 1 + (CHOOSE s \in {list[i].serial : i \in DOMAIN list} :
                 \A i \in DOMAIN list : list[i].serial <= s)

\* list_add(new, head): the new entry is inserted right after the head, so it
\* becomes the first entry that list_for_each_entry visits.
list_add(new, list) == <<new>> \o list

\* list_del of the entry at position i.
list_del(list, i) == SubSeq(list, 1, i - 1) \o SubSeq(list, i + 1, Len(list))

\* list_for_each_entry up to the first entry that matches, matches being
\* the positions of the entries that do: its position, 0 when there is
\* none.
list_find(matches) ==
    IF matches = {} THEN 0
    ELSE CHOOSE i \in matches : \A j \in matches : i <= j

\* An operation that is recorded without being counted.
Note(name, proc, param, rc, ras, hooks) ==
    /\ op' = OpRecord(name, proc, param, rc, ras, hooks)
    /\ UNCHANGED steps
    /\ UNCHANGED <<mos_sysfs_mutex, task>>

\* mos_register_process_callbacks(cbs)
mos_register_process_callbacks(cbs) ==
    /\ IF cbs = 0
       THEN /\ Note("mos_register_process_callbacks", 0, <<ToString(cbs)>>,
                    -EINVAL, "", <<>>)
            /\ UNCHANGED mos_process_callbacks
       ELSE /\ Len(mos_process_callbacks) < MaxCallbacks
            /\ next_serial(mos_process_callbacks) <= MaxSerial
            /\ mos_process_callbacks' =
                   list_add([callbacks |-> cbs,
                             serial |-> next_serial(mos_process_callbacks)],
                            mos_process_callbacks)
            /\ Note("mos_register_process_callbacks", 0, <<ToString(cbs)>>,
                    0, "", <<>>)
    /\ UNCHANGED <<partVars, cpu_online_mask, ctlVars, mos_process,
                   mos_process_option_callbacks, lwkcpus_sequence_writer>>

\* mos_unregister_process_callbacks(cbs): the first entry holding cbs is
\* removed.
mos_unregister_process_callbacks(cbs) ==
    LET i == IF cbs = 0 THEN 0
             ELSE list_find({k \in DOMAIN mos_process_callbacks :
                                mos_process_callbacks[k].callbacks = cbs})
    IN  /\ mos_process_callbacks' =
               IF i = 0 THEN mos_process_callbacks
               ELSE list_del(mos_process_callbacks, i)
        /\ Note("mos_unregister_process_callbacks", 0, <<ToString(cbs)>>,
                IF i = 0 THEN -EINVAL ELSE 0, "", <<>>)
        /\ UNCHANGED <<partVars, cpu_online_mask, ctlVars, mos_process,
                       mos_process_option_callbacks, lwkcpus_sequence_writer>>

\* A call of the function hook of a registered callback set and what it
\* returned (0 for the functions that return nothing).
Callback(hook, elem, rc) ==
    [hook |-> hook, callbacks |-> elem.callbacks, serial |-> elem.serial,
     rc |-> rc]

RECURSIVE callbacks_until_failure(_, _, _, _)
\* list_for_each_entry over the callback sets from entry i on, calling the
\* function hook of each set that has one, up to the first call that returns
\* non-zero; rcs[i] is what the function of entry i returns.
callbacks_until_failure(list, hook, rcs, i) ==
    IF i > Len(list) THEN <<>>
    ELSE IF ~implements(list[i].callbacks, hook)
    THEN callbacks_until_failure(list, hook, rcs, i + 1)
    ELSE IF rcs[i] # 0 THEN <<Callback(hook, list[i], rcs[i])>>
    ELSE <<Callback(hook, list[i], 0)>>
         \o callbacks_until_failure(list, hook, rcs, i + 1)

\* list_for_each_entry over the callback sets, calling the function hook of
\* each set that has one.
callbacks_all(list, hook) ==
    callbacks_until_failure(list, hook, [i \in DOMAIN list |-> 0], 1)

\* Whether the last call of a list_for_each_entry loop returned non-zero.
callback_failed(hooks) == hooks # <<>> /\ hooks[Len(hooks)].rc # 0

\* -------------------------------------------------------- process records

RECURSIVE for_each_cpu(_)
\* The CPUs of a mask in the order for_each_cpu visits them: ascending.
for_each_cpu(mask) ==
    IF mask = {} THEN <<>>
    ELSE LET lo == CHOOSE c \in mask : \A d \in mask : c <= d
         IN  <<lo>> \o for_each_cpu(mask \ {lo})

\* mos_get_process, the creation branch before the init callbacks: an empty
\* record that counts the current thread.  lwkcpus_sequence holds the entries
\* of the array and cpu_list tells the arrays of one process apart: 0 is the
\* NULL pointer, and every vmalloc of _lwkcpus_request_set gives the next
\* number.
new_process ==
    [lwkcpus |-> {}, utilcpus |-> {}, lwkcpus_sequence |-> <<>>,
     cpu_list |-> 0, num_lwkcpus |-> 0, num_util_threads |-> 0, alive |-> 1]

\* The return codes of a mos_process_init or mos_process_start callback.
InitRcs == {0, -1}

\* The mos_process_init calls of mos_get_process when it creates a record and
\* the callback of entry i returns rcs[i].
process_init(rcs) ==
    callbacks_until_failure(mos_process_callbacks, "mos_process_init", rcs, 1)

\* mos_get_process when current->mos_process is process and creating a record
\* would make the mos_process_init calls init: the existing record, a new
\* one, or NULL when a callback failed.
mos_get_process(process, init) ==
    IF process # NULL THEN process
    ELSE IF callback_failed(init) THEN NULL
    ELSE new_process

\* _cpus_request_set: "Non-LWK CPU was requested."
request_invalid(request, map) == ~(request \subseteq map)

\* A request that is never found busy.
request_busy_mut(request, reserved) == FALSE

\* _cpus_request_set: the request overlaps the reserved CPUs.
request_busy(request, reserved) == request \cap reserved # {}

\* _lwkcpus_request_set, the record after a request was granted: lwkcpus is
\* the request (cpumask_or of the request with itself), the sequence is
\* rebuilt from it, and the utility CPUs are added to utilcpus.
granted_process(process, request, utility) ==
    [process EXCEPT
        !.lwkcpus = request \cup request,
        !.num_lwkcpus = Cardinality(request),
        !.lwkcpus_sequence = for_each_cpu(request),
        !.cpu_list = process.cpu_list + 1,
        !.utilcpus = process.utilcpus \cup utility]

\* _cpus_request_set and _lwkcpus_request_set for the parsed request of
\* process p, whose record mos_get_process gave as process after the
\* mos_process_init calls init if it had to create it.  The map is updated
\* by _cpus_request_set before mos_get_process runs.
lwkcpus_request_set(p, buf, parsed, process, init) ==
    LET rc == IF parsed.rc # 0 THEN -EINVAL
              ELSE IF request_invalid(parsed.mask, lwkcpus_map) THEN -EINVAL
              ELSE IF request_busy(parsed.mask, lwkcpus_reserved_map)
              THEN -EBUSY
              ELSE IF process = NULL THEN -ENOMEM
              ELSE Len(buf)
    IN  /\ lwkcpus_reserved_map' =
               IF rc = -ENOMEM \/ rc >= 0
               THEN lwkcpus_reserved_map \cup parsed.mask
               ELSE lwkcpus_reserved_map
        /\ mos_process' =
               IF rc >= 0
               THEN [mos_process EXCEPT
                        ![p] = granted_process(process, parsed.mask,
                                               utility_cpus_map)]
               ELSE mos_process
        /\ Step("lwkcpus_request_store", p, buf, rc, "",
                IF (rc = -ENOMEM \/ rc >= 0) /\ mos_process[p] = NULL
                THEN init ELSE <<>>)
        /\ UNCHANGED <<lwkcpus_map, utility_cpus_map, mos_syscall_mask,
                       lwkcpus_mask, cpu_online_mask, ctlVars, cbVars,
                       lwkcpus_sequence_writer>>

\* A write of buf to lwkcpus_request by process p: mos_sysfs_mask_write with
\* _lwkcpus_request_set.
lwkcpus_request_store(p, buf) ==
    \E rcs \in [DOMAIN mos_process_callbacks -> InitRcs] :
        lwkcpus_request_set(p, buf, parsed_request[buf],
                            mos_get_process(mos_process[p], process_init(rcs)),
                            process_init(rcs))

\* _cpus_reserved_set: a non-empty request must lie within the LWK CPUs.
reserved_invalid(request, map) == request # {} /\ ~(request \subseteq map)

\* _lwkcpus_reserved_set for the parsed request: the request is copied into
\* the map.
lwkcpus_reserved_set(buf, parsed) ==
    LET rc == IF parsed.rc # 0 THEN -EINVAL
              ELSE IF reserved_invalid(parsed.mask, lwkcpus_map) THEN -EINVAL
              ELSE Len(buf)
    IN  /\ lwkcpus_reserved_map' = IF rc >= 0 THEN parsed.mask
                                   ELSE lwkcpus_reserved_map
        /\ Step("lwkcpus_reserved_store", 0, buf, rc, "", <<>>)
        /\ UNCHANGED <<lwkcpus_map, utility_cpus_map, mos_syscall_mask,
                       lwkcpus_mask, cpu_online_mask, ctlVars, mos_process,
                       cbVars,
                       lwkcpus_sequence_writer>>

\* A write of buf to lwkcpus_reserved: mos_sysfs_mask_write with
\* _lwkcpus_reserved_set.
lwkcpus_reserved_store(buf) == lwkcpus_reserved_set(buf, parsed_request[buf])

\* cpumask_xor(dst, a, b)
cpumask_xor(a, b) == (a \ b) \cup (b \ a)

\* A thread exit that is always taken for the exit of the last thread.
last_thread_mut(process) == TRUE

\* atomic_dec_and_test(&process->alive)
last_thread(process) == process.alive - 1 = 0

\* The callbacks of mos_exit_thread: mos_thread_exit of every set, then, for
\* the last thread, mos_process_exit of every set.
exit_callbacks(process) ==
    IF process = NULL THEN <<>>
    ELSE callbacks_all(mos_process_callbacks, "mos_thread_exit")
         \o (IF last_thread(process)
             THEN callbacks_all(mos_process_callbacks, "mos_process_exit")
             ELSE <<>>)

\* mos_exit_thread for a thread of process p: without a record nothing
\* happens; the last thread releases the process's CPUs and frees the record.
mos_exit_thread(p) ==
    LET process == mos_process[p]
        last == process # NULL /\ last_thread(process)
    IN  /\ mos_process' =
               IF process = NULL THEN mos_process
               ELSE IF last THEN [mos_process EXCEPT ![p] = NULL]
               ELSE [mos_process EXCEPT ![p].alive = process.alive - 1]
        /\ lwkcpus_reserved_map' =
               IF last THEN cpumask_xor(lwkcpus_reserved_map, process.lwkcpus)
               ELSE lwkcpus_reserved_map
        /\ Step("mos_exit_thread", p, <<>>, 0,
                IF process = NULL
                THEN "Unexpected NULL LWK process object pointer"
                ELSE "", exit_callbacks(process))
        /\ UNCHANGED <<lwkcpus_map, utility_cpus_map, mos_syscall_mask,
                       lwkcpus_mask, cpu_online_mask, ctlVars, cbVars,
                       lwkcpus_sequence_writer>>

\* A thread of process p creates another thread, which shares the record and
\* is counted in alive.
mos_clone_thread(p) ==
    /\ mos_process[p] # NULL
    /\ mos_process[p].alive < MaxThreads
    /\ mos_process' = [mos_process EXCEPT ![p].alive = @ + 1]
    /\ Step("mos_clone_thread", p, <<>>, 0, "", <<>>)
    /\ UNCHANGED <<partVars, cpu_online_mask, ctlVars, cbVars,
                   lwkcpus_sequence_writer>>

\* ------------------------------------------------- lwkcpus_sequence_store

RECURSIVE OctVal(_)
\* The value of a text of octal digits.
OctVal(s) ==
    IF s = <<>> THEN 0
    ELSE OctVal(SubSeq(s, 1, Len(s) - 1)) * 8 + DigitVal(s[Len(s)])

\* kstrtouint(val, 0, &cpuid) for texts of digits: one trailing newline is
\* accepted, a leading 0 makes the number octal, anything else that is not
\* a digit fails.  ("0x" numbers, a leading '+' and numbers beyond 32 bits
\* are not among the texts written here.)
kstrtouint(val) ==
    LET s == IF val # <<>> /\ val[Len(val)] = "\n"
             THEN SubSeq(val, 1, Len(val) - 1) ELSE val
    IN  IF ~IsNumber(s) THEN [rc |-> -EINVAL, value |-> 0]
        ELSE IF Len(s) > 1 /\ s[1] = "0"
        THEN IF \A i \in DOMAIN s : s[i] \notin {"8", "9"}
             THEN [rc |-> 0, value |-> OctVal(s)]
             ELSE [rc |-> -EINVAL, value |-> 0]
        ELSE [rc |-> 0, value |-> NumVal(s)]

\* Texts written to lwkcpus_sequence: lists of one, two and three ids in
\* both orders, with a trailing newline, with an octal id, with an empty or
\* malformed item, and the empty text.
SequenceBuffs ==
    { <<>>, <<"2">>, <<"3">>, <<"3", ",", "2">>, <<"2", ",", "3">>,
      <<"3", ",", "2", "\n">>, <<"0", "1", "0", ",", "7">>,
      <<"2", ",", "3", ",", "2">>, <<"3", ",">>, <<"3", ",", "-">>,
      <<"-", ",", "3">> }

\* Each text split at the commas once.
sequence_vals == [buff \in SequenceBuffs |-> strsep(buff, ",")]

\* A write that never finds too few CPUs in the list.
too_few_mut(cpus_in_list, num_lwkcpus) == FALSE

\* "Too few CPUs were provided in an LWK sequence list."
too_few(cpus_in_list, num_lwkcpus) == cpus_in_list < num_lwkcpus

\* "Too many CPUs were provided in an LWK sequence list."
too_many(cpus_in_list, num_lwkcpus) == cpus_in_list > num_lwkcpus

\* lwkcpus_sequence_store after its two checks of the record: the text, its
\* items, the position of the next item, the number of ids stored, and the
\* array that cpu_ptr walks through.
sequence_writer(buff, proc) ==
    [buff |-> buff, val |-> sequence_vals[buff], i |-> 1, cpus_in_list |-> 0,
     cpu_list |-> proc.cpu_list]

\* *cpu_ptr++ = cpuid: the entry is written into the array that cpu_ptr was
\* taken from.  When the record has got another array since then, the write
\* goes to the old array and the record does not show it.
store_cpuid(process, w, cpuid) ==
    IF w.cpu_list = process.cpu_list
       /\ w.cpus_in_list + 1 <= Len(process.lwkcpus_sequence)
    THEN [process EXCEPT !.lwkcpus_sequence[w.cpus_in_list + 1] = cpuid]
    ELSE process

\* The end of a pass of the while loop when kstrtouint gave k.
sequence_item(w, process, k) ==
    IF k.rc # 0
    THEN [done |-> TRUE, rc |-> -EINVAL,
          ras |-> "Attempted to write invalid value to the LWK CPU sequence",
          w |-> w, process |-> process]
    ELSE IF too_many(w.cpus_in_list + 1, process.num_lwkcpus)
    THEN [done |-> TRUE, rc |-> -EINVAL,
          ras |-> "Too many CPUs were provided in an LWK sequence list.",
          w |-> w, process |-> process]
    ELSE [done |-> FALSE, rc |-> 0, ras |-> "",
          w |-> [w EXCEPT !.i = @ + 1, !.cpus_in_list = @ + 1],
          process |-> store_cpuid(process, w, k.value)]

\* One pass of the while loop: the next item is converted and stored.
sequence_step(w, process) ==
    sequence_item(w, process, kstrtouint(w.val[w.i]))

\* After the loop: the list must have filled the array.
sequence_end(w, process) ==
    IF too_few(w.cpus_in_list, process.num_lwkcpus)
    THEN [rc |-> -EINVAL,
          ras |-> "Too few CPUs were provided in an LWK sequence list.",
          process |-> process]
    ELSE [rc |-> Len(w.buff), ras |-> "", process |-> process]

RECURSIVE sequence_loop(_, _)
RECURSIVE sequence_next(_)
\* The while loop and what follows it, run without interruption.
sequence_loop(w, process) ==
    IF w.i > Len(w.val) THEN sequence_end(w, process)
    ELSE sequence_next(sequence_step(w, process))

\* The loop after a pass that ended as s.
sequence_next(s) ==
    IF s.done THEN [rc |-> s.rc, ras |-> s.ras, process |-> s.process]
    ELSE sequence_loop(s.w, s.process)

\* lwkcpus_sequence_store(buff) for a task whose current->mos_process is
\* proc: [rc, ras, process].
sequence_store(buff, proc) ==
    IF proc = NULL
    THEN [rc |-> -EINVAL,
          ras |-> "Attempted to write an LWK CPU sequence for a non-LWK process.",
          process |-> proc]
    ELSE IF proc.cpu_list = 0
    THEN [rc |-> -EINVAL,
          ras |-> "Attempted to write an LWK CPU sequence prior to reserving LWK CPUs.",
          process |-> proc]
    ELSE sequence_loop(sequence_writer(buff, proc), proc)

\* The state after a write to lwkcpus_sequence by process p that ended as r.
sequence_done(p, buff, r) ==
    /\ mos_process' = [mos_process EXCEPT ![p] = r.process]
    /\ Step("lwkcpus_sequence_store", p, buff, r.rc, r.ras, <<>>)
    /\ UNCHANGED <<partVars, cpu_online_mask, ctlVars, cbVars,
                   lwkcpus_sequence_writer>>

\* A write of buff to lwkcpus_sequence by a thread of process p that no other
\* operation on the record interrupts.
lwkcpus_sequence_store(p, buff) ==
    /\ lwkcpus_sequence_writer[p] = NULL
    /\ sequence_done(p, buff, sequence_store(buff, mos_process[p]))

\* lwkcpus_sequence_store takes no lock, so other operations can run between
\* its steps.  The three actions below are the same function one step at a
\* time: the entry with the two checks of the record, one pass of the while
\* loop, and the check after the loop.  lwkcpus_sequence_writer[p] holds the
\* local variables of the write in progress.

\* Whether a thread of process p is free to start an operation: the thread
\* that is inside lwkcpus_sequence_store is not.
thread_free(p) ==
    \/ lwkcpus_sequence_writer[p] = NULL
    \/ mos_process[p] # NULL /\ mos_process[p].alive > 1

\* The entry of lwkcpus_sequence_store(buff) by a thread of process p: the
\* write ends at once when one of the two checks fails.
sequence_enter(p, buff) ==
    /\ lwkcpus_sequence_writer[p] = NULL
    /\ IF mos_process[p] = NULL \/ mos_process[p].cpu_list = 0
       THEN sequence_done(p, buff, sequence_store(buff, mos_process[p]))
       ELSE /\ lwkcpus_sequence_writer' =
                   [lwkcpus_sequence_writer EXCEPT
                       ![p] = sequence_writer(buff, mos_process[p])]
            /\ Note("lwkcpus_sequence_enter", p, buff, 0, "", <<>>)
            /\ UNCHANGED <<partVars, cpu_online_mask, ctlVars, mos_process,
                           cbVars>>

\* The state after a pass of the loop of process p's write w ended as s.
sequence_passed(p, w, s) ==
    /\ lwkcpus_sequence_writer' =
           [lwkcpus_sequence_writer EXCEPT
               ![p] = IF s.done THEN NULL ELSE s.w]
    /\ mos_process' = [mos_process EXCEPT ![p] = s.process]
    /\ IF s.done
       THEN Note("lwkcpus_sequence_store", p, w.buff, s.rc, s.ras, <<>>)
       ELSE Note("lwkcpus_sequence_pass", p, w.buff, 0, "", <<>>)
    /\ UNCHANGED <<partVars, cpu_online_mask, ctlVars, cbVars>>

\* One pass of the while loop of the write of process p, on the record as it
\* is now.
sequence_pass(p) ==
    /\ lwkcpus_sequence_writer[p] # NULL
    /\ lwkcpus_sequence_writer[p].i <= Len(lwkcpus_sequence_writer[p].val)
    /\ sequence_passed(p, lwkcpus_sequence_writer[p],
                       sequence_step(lwkcpus_sequence_writer[p],
                                     mos_process[p]))

\* The state after the write w of process p returned as e.
sequence_returned(p, w, e) ==
    /\ lwkcpus_sequence_writer' = [lwkcpus_sequence_writer EXCEPT ![p] = NULL]
    /\ Note("lwkcpus_sequence_store", p, w.buff, e.rc, e.ras, <<>>)
    /\ UNCHANGED <<partVars, cpu_online_mask, ctlVars, mos_process, cbVars>>

\* The end of the write of process p: strsep found no further item.
sequence_return(p) ==
    /\ lwkcpus_sequence_writer[p] # NULL
    /\ lwkcpus_sequence_writer[p].i > Len(lwkcpus_sequence_writer[p].val)
    /\ sequence_returned(p, lwkcpus_sequence_writer[p],
                         sequence_end(lwkcpus_sequence_writer[p],
                                      mos_process[p]))

\* ------------------------------------------------------ lwk_options_store

\* The null character of a text.
Nul == "NUL"

\* The option callback functions that LWK components register; 0 stands for
\* a NULL pointer.
OptionCallbacks == 1..NumOptionCallbacks

\* sizeof(elem->name)
OptionNameSize == 64

\* The option names registered: two short ones and one that does not fit
\* into elem->name.
OptionNames ==
    { <<"x">>, <<"y">>, [i \in 1..OptionNameSize |-> "x"] }

\* mos_register_option_callback(name, cb)
mos_register_option_callback(name, cb) ==
    /\ IF cb = 0 \/ Len(name) >= OptionNameSize
       THEN /\ Note("mos_register_option_callback", 0,
                    <<ToString(Len(name)), ToString(cb)>>, -EINVAL, "", <<>>)
            /\ UNCHANGED mos_process_option_callbacks
       ELSE /\ Len(mos_process_option_callbacks) < MaxCallbacks
            /\ next_serial(mos_process_option_callbacks) <= MaxSerial
            /\ mos_process_option_callbacks' =
                   list_add([name |-> name, callback |-> cb,
                             serial |->
                                 next_serial(mos_process_option_callbacks)],
                            mos_process_option_callbacks)
            /\ Note("mos_register_option_callback", 0, name \o <<ToString(cb)>>,
                    0, "", <<>>)
    /\ UNCHANGED <<partVars, cpu_online_mask, ctlVars, mos_process,
                   mos_process_callbacks, lwkcpus_sequence_writer>>

\* mos_unregister_option_callback(name, cb): the first entry with this
\* function and this name is removed.
mos_unregister_option_callback(name, cb) ==
    LET i == IF cb = 0 THEN 0
             ELSE list_find({k \in DOMAIN mos_process_option_callbacks :
                        /\ mos_process_option_callbacks[k].callback = cb
                        /\ mos_process_option_callbacks[k].name = name})
    IN  /\ mos_process_option_callbacks' =
               IF i = 0 THEN mos_process_option_callbacks
               ELSE list_del(mos_process_option_callbacks, i)
        /\ Note("mos_unregister_option_callback", 0,
                <<ToString(Len(name)), ToString(cb)>>,
                IF i = 0 THEN -EINVAL ELSE 0, "", <<>>)
        /\ UNCHANGED <<partVars, cpu_online_mask, ctlVars, mos_process,
                       mos_process_callbacks, lwkcpus_sequence_writer>>

\* The text that lwk_options_store reads: the count characters written,
\* followed by the null character that the sysfs layer puts after them.
options_text(buff) == buff \o <<Nul>>

\* strlen(name) for the string that starts at position name of text.
strlen(text, name) ==
    (CHOOSE j \in name..Len(text) :
         text[j] = Nul /\ \A k \in name..(j - 1) : text[k] # Nul) - name

\* The option at position name of text: the string up to the null character,
\* split at its first '=' into the option name and its value (NULL when
\* there is no '=').
option_at(text, name) ==
    LET option == SubSeq(text, name, name + strlen(text, name) - 1)
        eq == strchr(option, "=")
    IN  IF eq = 0 THEN [option |-> option, value |-> NoText]
        ELSE [option |-> SubSeq(option, 1, eq - 1),
              value |-> SubSeq(option, eq + 1, Len(option))]

\* The return codes of an option callback.
OptionRcs == {0, -1}

\* A call of the option callback of entry elem and what it returned.
OptionCall(o, elem, rc) ==
    [hook |-> "option", callbacks |-> elem.callback, serial |-> elem.serial,
     rc |-> rc, name |-> o.option, value |-> o.value]

\* list_for_each_entry over the option callbacks up to the first entry whose
\* name is option: its position, 0 when there is none (not_found).
option_lookup(list, option) ==
    list_find({k \in DOMAIN list : list[k].name = option})

\* The most options in one batch.
MaxOptions == 2

RECURSIVE options_loop(_, _, _, _, _, _)
RECURSIVE options_found(_, _, _, _, _, _, _, _)
\* The while loop from the string at position name on, for a write of count
\* characters: n options came before, calls are the callbacks called so far
\* and rcs[n] is what the callback of option n returns.  [rc, ras, hooks];
\* rc = 0 means that the loop ended without an error.
options_loop(text, count, name, n, calls, rcs) ==
    IF strlen(text, name) = 0 THEN [rc |-> 0, ras |-> "", hooks |-> calls]
    ELSE options_found(text, count, name, n + 1, calls, rcs,
                       option_at(text, name),
                       option_lookup(mos_process_option_callbacks,
                                     option_at(text, name).option))

\* A loop that goes on to the next option after a callback reported an
\* error.
options_found_mut(text, count, name, n, calls, rcs, o, i) ==
    IF i = 0
    THEN [rc |-> -EINVAL, ras |-> "No option callback found", hooks |-> calls]
    ELSE IF name + strlen(text, name) + 1 - 1 > count
    THEN [rc |-> -EINVAL, ras |-> "Overflow in options buffer.",
          hooks |-> Append(calls,
                        OptionCall(o, mos_process_option_callbacks[i], rcs[n]))]
    ELSE options_loop(text, count, name + strlen(text, name) + 1, n,
             Append(calls,
                    OptionCall(o, mos_process_option_callbacks[i], rcs[n])),
             rcs)

\* The body of the while loop for option o, which is option n of the batch,
\* when the lookup gave entry i.
options_found(text, count, name, n, calls, rcs, o, i) ==
    IF i = 0
    THEN [rc |-> -EINVAL, ras |-> "No option callback found", hooks |-> calls]
    ELSE IF rcs[n] # 0
    THEN [rc |-> -EINVAL, ras |-> "Option callback reported an error",
          hooks |-> Append(calls,
                        OptionCall(o, mos_process_option_callbacks[i], rcs[n]))]
    ELSE IF name + strlen(text, name) + 1 - 1 > count
    THEN [rc |-> -EINVAL, ras |-> "Overflow in options buffer.",
          hooks |-> Append(calls,
                        OptionCall(o, mos_process_option_callbacks[i], 0))]
    ELSE options_loop(text, count, name + strlen(text, name) + 1, n,
             Append(calls, OptionCall(o, mos_process_option_callbacks[i], 0)),
             rcs)

\* A batch whose mos_process_start callbacks are called whatever the options
\* did.
options_start_mut(count, l, starts) ==
    [rc |-> IF l.rc # 0 THEN l.rc ELSE count, ras |-> l.ras,
     hooks |-> l.hooks \o starts]

\* After the loop ended as l: the mos_process_start callbacks are called
\* only if no option failed, starts being those calls.
options_start(count, l, starts) ==
    IF l.rc # 0 THEN l
    ELSE IF callback_failed(starts)
    THEN [rc |-> -EINVAL,
          ras |-> "Non-zero return code from process start callback",
          hooks |-> l.hooks \o starts]
    ELSE [rc |-> count, ras |-> "", hooks |-> l.hooks \o starts]

\* lwk_options_store(buff, count) for a task whose current->mos_process is
\* mosp, when the callback of option n returns rcs[n] and the
\* mos_process_start callback of entry i returns start_rcs[i].
options_store(buff, mosp, rcs, start_rcs) ==
    IF mosp = NULL
    THEN [rc |-> -EINVAL,
          ras |-> "Attempted to set LWK options for a non-LWK process.",
          hooks |-> <<>>]
    ELSE options_start(Len(buff),
             options_loop(options_text(buff), Len(buff),
                          IF options_text(buff)[1] = Nul THEN 2 ELSE 1,
                          0, <<>>, rcs),
             callbacks_until_failure(mos_process_callbacks,
                                     "mos_process_start", start_rcs, 1))

\* The state after a write to lwk_options by process p that ended as r: what
\* the callbacks do to the record is their own business.
options_done(p, buff, r) ==
    /\ Step("lwk_options_store", p, buff, r.rc, r.ras, r.hooks)
    /\ UNCHANGED <<partVars, cpu_online_mask, ctlVars, mos_process, cbVars,
                   lwkcpus_sequence_writer>>

\* A write of buff to lwk_options by a thread of process p: every callback
\* that is called may fail (none is called for a process without a record).
lwk_options_store(p, buff) ==
    \E rcs \in [1..MaxOptions ->
                   IF mos_process[p] = NULL THEN {0} ELSE OptionRcs],
       start_rcs \in [DOMAIN mos_process_callbacks ->
                         IF mos_process[p] = NULL THEN {0} ELSE InitRcs] :
        options_done(p, buff,
                     options_store(buff, mos_process[p], rcs, start_rcs))

\* Texts written to lwk_options: one option, with and without a value, two
\* options in both orders, a leading null character, an option after the end
\* of the batch, a batch without the closing null character, and no option.
OptionBuffs ==
    { <<"x", Nul>>, <<"y", Nul>>, <<"x", "=", "v", Nul>>,
      <<"x", Nul, "y", Nul>>, <<"y", Nul, "x", Nul>>,
      <<Nul, "x", Nul>>, <<"x", Nul, Nul, "y", Nul>>,
      <<"x">>, <<"x", Nul, "y">>, <<Nul>> }

\* ---------------------------------------------------- lwkmem_request_store

\* MAX_NIDS, the capacity of lwkm[], for CONFIG_NODES_SHIFT = 1.
MAX_NIDS == 2

RECURSIVE lwkmem_vec_parse(_, _)
\* _lwkmem_vec_parse for the values vals that strsep finds between the
\* blanks of the text: the while loop from value n + 1 on, then the check
\* that there was a value at all.
lwkmem_vec_parse(vals, n) ==
    IF n = Len(vals) THEN (IF n > 0 THEN 0 ELSE -EINVAL)
    ELSE IF n = MAX_NIDS THEN -EINVAL
    ELSE IF kstrtouint(vals[n + 1]).rc # 0 THEN -EINVAL
    ELSE lwkmem_vec_parse(vals, n + 1)

\* lwkmem_request_store after the parse returned parsed, when
\* mos_get_process gives process: [rc, locked], locked telling whether
\* the mutex was taken, that is whether mos_get_process was called.
lwkmem_request_set(parsed, count, process, lwkmem_request) ==
    IF parsed # 0 THEN [rc |-> parsed, locked |-> FALSE]
    ELSE IF process = NULL THEN [rc |-> -ENOMEM, locked |-> TRUE]
    ELSE IF lwkmem_request = "refused" THEN [rc |-> -EBUSY, locked |-> TRUE]
    ELSE [rc |-> count, locked |-> TRUE]

\* The state after a write of buff to lwkmem_request by process p that ended
\* as r: the record that mos_get_process gave is held in the local variable
\* process only; current->mos_process is not assigned, so a record that
\* mos_get_process created here, after the mos_process_init callbacks init,
\* is not the record of the process afterwards.
lwkmem_request_done(p, buff, r, init) ==
    /\ Step("lwkmem_request_store", p, buff, r.rc, "",
            IF r.locked /\ mos_process[p] = NULL THEN init ELSE <<>>)
    /\ UNCHANGED <<partVars, cpu_online_mask, ctlVars, cbVars, mos_process,
                   lwkcpus_sequence_writer>>

\* A write of buff to lwkmem_request by process p.  The function pointer
\* lwkmem_request is not set, or it is a function of the memory manager that
\* grants or refuses the request.
lwkmem_request_store(p, buff) ==
    \E rcs \in [DOMAIN mos_process_callbacks -> InitRcs],
       lwkmem_request \in {"NULL", "granted", "refused"} :
        lwkmem_request_done(p, buff,
            lwkmem_request_set(lwkmem_vec_parse(strsep(buff, " "), 0),
                Len(buff),
                mos_get_process(mos_process[p], process_init(rcs)),
                lwkmem_request),
            process_init(rcs))

\* Texts written to lwkmem_request: one number, two, more than lwkm[] holds,
\* a text that is not a number, and the empty text.
MemBuffs ==
    { <<"1">>, <<"1", " ", "2">>, <<"1", " ", "2", " ", "3">>, <<"-">>, <<>> }

\* ------------------------------------------------------- lwk_config_store

\* A text written to lwk_config is a sequence of symbols: a keyword, a
\* profile name and a resource name are one symbol each, " ", "=" and "\n"
\* are themselves, an lwkcpus= value is written in characters as above, and
\* "m" stands for an lwkmem= value.  count is the number of symbols.

\* LWKCPU_PROF_NOR and LWKCPU_PROF_DBG
LWKCPU_PROF_NOR == <<"normal">>
LWKCPU_PROF_DBG == <<"debug">>

\* strreplace(s_value, '\n', '\0'): the value ends at its first newline.
strreplace(s_value) ==
    IF strchr(s_value, "\n") = 0 THEN s_value
    ELSE SubSeq(s_value, 1, strchr(s_value, "\n") - 1)

\* The local variables of lwk_config_store before its loop: no keyword seen.
no_keywords ==
    [lwkcpus |-> NoText, lwkcpu_profile |-> NoText, lwkmem |-> NoText,
     auto_config |-> NoText, rc |-> 0, ras |-> ""]

\* One pass of the while loop for the word s_keyword, which holds a '=' at
\* position eq: the value after it is kept under its keyword, and a keyword
\* that is none of the four is ignored.
store_keyword(k, s_keyword, eq) ==
    LET keyword == SubSeq(s_keyword, 1, eq - 1)
        s_value == strreplace(SubSeq(s_keyword, eq + 1, Len(s_keyword)))
    IN  IF keyword = <<"lwkcpus">> THEN [k EXCEPT !.lwkcpus = s_value]
        ELSE IF keyword = <<"lwkcpu_profile">>
        THEN [k EXCEPT !.lwkcpu_profile = s_value]
        ELSE IF keyword = <<"lwkmem">> THEN [k EXCEPT !.lwkmem = s_value]
        ELSE IF keyword = <<"auto">> THEN [k EXCEPT !.auto_config = s_value]
        ELSE k

RECURSIVE store_loop(_, _, _)
\* The while loop over the words from word i on: empty words are skipped and
\* a word without '=' ends the operation.
store_loop(words, i, k) ==
    IF i > Len(words) THEN k
    ELSE IF words[i] = <<>> THEN store_loop(words, i + 1, k)
    ELSE IF strchr(words[i], "=") = 0
    THEN [k EXCEPT !.rc = -EINVAL,
                   !.ras = "Failed to find sign[=] to set a keyword"]
    ELSE store_loop(words, i + 1,
                    store_keyword(k, words[i], strchr(words[i], "=")))

\* lwk_validate_auto(auto_s): every resource is "cpu" or "mem".
lwk_validate_auto(auto_s) ==
    IF \A i \in DOMAIN strsep(auto_s, ",") :
           strsep(auto_s, ",")[i] \in {<<"cpu">>, <<"mem">>}
    THEN 0 ELSE -1

\* The text that lwkctrl_cpu_profile_spec gets after a partition was created
\* with profile lwkcpu_profile.
profile_spec(lwkcpu_profile) ==
    IF lwkcpu_profile = NoText THEN LWKCPU_PROF_NOR
    ELSE IF lwkcpu_profile # LWKCPU_PROF_NOR /\ lwkcpu_profile # LWKCPU_PROF_DBG
    THEN LWKCPU_PROF_NOR
    ELSE lwkcpu_profile

\* The return codes of lwkmem_partition_create and lwkmem_partition_destroy.
MemRcs == {0, -1}

\* lwk_config_lwkmem(param_value) when the memory partition is partition and
\* the memory hook would return mem_rc: [rc, hooks, partition].  A
\* successful hook leaves the partition it was asked for.
lwk_config_lwkmem(param_value, static, partition, mem_rc) ==
    IF static THEN [rc |-> -EINVAL, hooks |-> <<>>, partition |-> partition]
    ELSE IF param_value = <<>>
    THEN [rc |-> mem_rc,
          hooks |-> <<Hook("lwkmem_partition_destroy", mem_rc)>>,
          partition |-> IF mem_rc = 0 THEN <<>> ELSE partition]
    ELSE [rc |-> mem_rc,
          hooks |-> <<Hook("lwkmem_partition_create", mem_rc)>>,
          partition |-> IF mem_rc = 0 THEN param_value ELSE partition]

\* What lwk_config_store keeps, as one value.
ControlState ==
    [lwkmem_partition |-> lwkmem_partition,
     lwkctrl_cpus_spec |-> lwkctrl_cpus_spec,
     lwkctrl_cpu_profile_spec |-> lwkctrl_cpu_profile_spec,
     lwkauto |-> lwkauto]

\* lwk_config_store left at "out" with rc and the message ras, after the
\* hooks called, in partition state pm and control state ctl.
store_out(rc, ras, hooks, pm, ctl) ==
    [rc |-> rc, ras |-> ras, hooks |-> hooks, pm |-> pm, ctl |-> ctl]

\* "Update LWKCPU and LWKCPU profile specs"
store_specs(k, ctl) ==
    [ctl EXCEPT
        !.lwkctrl_cpus_spec = k.lwkcpus,
        !.lwkctrl_cpu_profile_spec =
            IF k.lwkcpus = <<>> THEN <<>> ELSE profile_spec(k.lwkcpu_profile)]

\* A write whose two intents need not agree.
intent_mismatch_mut(delete_lwkcpu, delete_lwkmem) == FALSE

\* delete_lwkcpu != delete_lwkmem
intent_mismatch(delete_lwkcpu, delete_lwkmem) == delete_lwkcpu # delete_lwkmem

\* Both partitions are deleted: the CPUs first (c is what lwk_config_lwkcpus
\* gives), then the memory (m is what lwk_config_lwkmem gives).
store_delete(k, count, c, m, ctl) ==
    IF c.rc < 0
    THEN store_out(-EINVAL, "Failure processing: lwkcpus", c.hooks, c.pm, ctl)
    ELSE IF m.rc < 0
    THEN store_out(-EINVAL, "Failure processing: lwkmem", c.hooks \o m.hooks,
                   c.pm, ctl)
    ELSE store_out(count, "", c.hooks \o m.hooks, c.pm,
                   store_specs(k, [ctl EXCEPT
                                      !.lwkmem_partition = m.partition]))

\* Both partitions are created: the memory first, then the CPUs.
store_create(k, count, pm, c, m, ctl) ==
    IF m.rc < 0
    THEN store_out(-EINVAL, "Failure processing: lwkmem", m.hooks, pm, ctl)
    ELSE IF c.rc < 0
    THEN store_out(-EINVAL, "Failure processing: lwkcpus", m.hooks \o c.hooks,
                   c.pm, [ctl EXCEPT !.lwkmem_partition = m.partition])
    ELSE store_out(count, "", m.hooks \o c.hooks, c.pm,
                   store_specs(k, [ctl EXCEPT
                                      !.lwkmem_partition = m.partition]))

\* The memory is static: lwkcpus= is executed alone and lwkmem= is refused.
store_static(k, count, pm, c, ctl) ==
    IF k.lwkcpus = NoText
    THEN store_out(-EINVAL,
                   IF k.lwkmem = NoText THEN ""
                   ELSE "Cannot create lwkmem.  Partition is static.",
                   <<>>, pm, ctl)
    ELSE IF c.rc < 0
    THEN store_out(-EINVAL, "Failure processing: lwkcpus", c.hooks, c.pm, ctl)
    ELSE store_out(count,
                   IF k.lwkmem = NoText THEN ""
                   ELSE "Cannot create lwkmem.  Partition is static.",
                   c.hooks, c.pm, store_specs(k, ctl))

\* lwk_config_store after lwkauto was set, for the keywords k of a write of
\* count symbols: c is what lwk_config_lwkcpus gives for k.lwkcpus and m what
\* lwk_config_lwkmem gives for k.lwkmem, if they are called.
store_execute(k, count, static, pm, c, m, ctl) ==
    IF k.lwkcpus # NoText /\ k.lwkmem # NoText /\ ~static
    THEN IF intent_mismatch(k.lwkcpus = <<>>, k.lwkmem = <<>>)
         THEN store_out(-EINVAL, "Can not create and delete partition.",
                        <<>>, pm, ctl)
         ELSE IF k.lwkcpus = <<>> THEN store_delete(k, count, c, m, ctl)
         ELSE store_create(k, count, pm, c, m, ctl)
    ELSE IF ~static
    THEN store_out(-EINVAL, "Can not execute specification alone.", <<>>,
                   pm, ctl)
    ELSE store_static(k, count, pm, c, ctl)

\* lwk_config_store for the keywords k: a failed loop and an unsupported
\* auto= value end the operation; otherwise lwkauto is replaced, by NULL when
\* the write had no auto=, and the partitions are handled.
config_store(k, count, static, pm, c, m, ctl) ==
    IF k.rc # 0 THEN store_out(-EINVAL, k.ras, <<>>, pm, ctl)
    ELSE IF k.auto_config # NoText /\ lwk_validate_auto(k.auto_config) # 0
    THEN store_out(-EINVAL, "Unsupported auto configuration data", <<>>,
                   pm, ctl)
    ELSE store_execute(k, count, static, pm, c, m,
                       [ctl EXCEPT !.lwkauto = k.auto_config])

\* The lwkcpus= values and the texts written to lwk_config: both partitions
\* created (with a profile and auto=, with an unknown keyword and an empty
\* word, with a newline), both deleted, the two mismatches (one ending in a
\* newline, one with auto=), either keyword alone, an unsupported auto=
\* value, and a word without '='.
StoreCpus == <<"lwkcpus", "=", "1", ".", "2", "-", "3">>
StoreBuffs ==
    { StoreCpus \o <<" ", "lwkmem", "=", "m", "\n">>,
      StoreCpus \o <<" ", "lwkcpu_profile", "=", "debug", " ",
                     "lwkmem", "=", "m", " ", "auto", "=", "cpu", ",", "mem">>,
      <<"foo", "=", "1", " ", " ">> \o StoreCpus \o <<" ", "lwkmem", "=", "m">>,
      <<"lwkcpus", "=", " ", "lwkmem", "=", "\n">>,
      StoreCpus \o <<" ", "lwkmem", "=">>,
      StoreCpus \o <<" ", "lwkmem", "=", " ", "auto", "=", "cpu">>,
      <<"lwkmem", "=", "m", " ", "lwkcpus", "=", "\n">>,
      StoreCpus,
      <<"lwkmem", "=", "m">>,
      StoreCpus \o <<" ", "lwkmem", "=", "m", " ", "auto", "=", "x">>,
      <<"lwkcpus">> }

\* The loop of lwk_config_store run once over every text.
stored_keywords ==
    [buff \in StoreBuffs |-> store_loop(strsep(buff, " "), 1, no_keywords)]

\* The state after a write of buff to lwk_config that ended as r.
store_done(buff, r) ==
    /\ lwkcpus_map' = r.pm.lwkcpus_map
    /\ utility_cpus_map' = r.pm.utility_cpus_map
    /\ lwkcpus_reserved_map' = r.pm.lwkcpus_reserved_map
    /\ mos_syscall_mask' = r.pm.mos_syscall_mask
    /\ lwkcpus_mask' = r.pm.lwkcpus_mask
    /\ lwkmem_partition' = r.ctl.lwkmem_partition
    /\ lwkctrl_cpus_spec' = r.ctl.lwkctrl_cpus_spec
    /\ lwkctrl_cpu_profile_spec' = r.ctl.lwkctrl_cpu_profile_spec
    /\ lwkauto' = r.ctl.lwkauto
    /\ Step("lwk_config_store", 0, buff, r.rc, r.ras, r.hooks)
    /\ UNCHANGED <<lwkmem_static_enabled, cpu_online_mask, mos_process,
                   cbVars, lwkcpus_sequence_writer>>

\* A write of buff to lwk_config, whose keywords are k.
store_keywords(buff, k) ==
    \E destroy_rc \in HookRcs, create_rc \in HookRcs, mem_rc \in MemRcs :
        store_done(buff,
            config_store(k, Len(buff), lwkmem_static_enabled, PartitionMap,
                IF k.lwkcpus = NoText THEN config_rejected(PartitionMap, "")
                ELSE config_lwkcpus(k.lwkcpus, PartitionMap, cpu_online_mask,
                                    destroy_rc, create_rc),
                IF k.lwkmem = NoText
                THEN [rc |-> 0, hooks |-> <<>>, partition |-> lwkmem_partition]
                ELSE lwk_config_lwkmem(k.lwkmem, lwkmem_static_enabled,
                                       lwkmem_partition, mem_rc),
                ControlState))

\* The action: one write of buff to lwk_config, under mos_sysfs_mutex.
lwk_config_store(buff) == store_keywords(buff, stored_keywords[buff])

\* The kernel is booted with the LWK memory designated on the command line.
lwkmem_static(enabled) ==
    /\ steps = 0
    /\ op = NoOp
    /\ lwkmem_static_enabled = FALSE
    /\ enabled
    /\ lwkmem_static_enabled' = enabled
    /\ UNCHANGED <<partVars, cpu_online_mask, mos_process, cbVars,
                   lwkcpus_sequence_writer, lwkmem_partition,
                   lwkctrl_cpus_spec, lwkctrl_cpu_profile_spec, lwkauto,
                   op, steps, mos_sysfs_mutex, task>>

\* -------------------------------------------------------- mos_sysfs_mutex

\* The tasks that call the handlers at the same time.
NumTasks == 3
Tasks == 1..NumTasks

\* The functions that call mutex_lock(&mos_sysfs_mutex).
Handlers ==
    { "mos_exit_thread", "mos_sysfs_mask_write", "lwkmem_request_store",
      "lwkprocesses_show", "lwkmem_domain_info_store", "lwk_config_store",
      "lwk_config_show" }

\* A task that is in none of the handlers.
InUser == [at |-> "user", handler |-> "", waited |-> FALSE]

\* The places where a handler leaves before it calls mutex_lock, by source
\* line: mos_sysfs_mask_write when the mask cannot be allocated (308) or
\* parsed (313), lwkmem_request_store when the text cannot be copied (637)
\* or parsed (645).
EarlySites(handler) ==
    CASE handler = "mos_sysfs_mask_write" -> {308, 313}
      [] handler = "lwkmem_request_store" -> {637, 645}
      [] OTHER -> {}

\* The places where a handler leaves the code between mutex_lock and the
\* end, by source line: every goto and the last statement before the label
\* or the mutex_unlock that the code runs into.
LockedSites(handler) ==
    CASE handler = "mos_exit_thread" -> {249, 261, 279}
      [] handler = "mos_sysfs_mask_write" -> {321}
      [] handler = "lwkmem_request_store" -> {657, 663, 667}
      [] handler = "lwkprocesses_show" -> {724}
      [] handler = "lwkmem_domain_info_store" ->
             {912, 919, 936, 951, 962, 972, 986, 991}
      [] handler = "lwk_config_store" ->
             {1278, 1287, 1297, 1304, 1310, 1317, 1328, 1339, 1347, 1353,
              1360, 1366, 1395, 1403, 1434}
      [] handler = "lwk_config_show" -> {1463, 1469}

\* A lwkmem_request_store whose error paths after mutex_lock go to the label
\* out.
exit_label_mut(handler, site) ==
    CASE handler = "mos_exit_thread" -> "unlock"
      [] handler = "mos_sysfs_mask_write" ->
             IF site = 308 THEN "return"
             ELSE IF site = 313 THEN "out" ELSE "mutex_unlock"
      [] handler = "lwkmem_request_store" ->
             IF site = 667 THEN "unlock" ELSE "out"
      [] handler = "lwkprocesses_show" -> "mutex_unlock"
      [] OTHER -> "out"

\* Where the handler goes on from site: the label of the goto, for the last
\* statement the label that follows it, "mutex_unlock" where the call of
\* mutex_unlock follows without a label, "return" for a return statement.
exit_label(handler, site) ==
    CASE handler = "mos_exit_thread" -> "unlock"
      [] handler = "mos_sysfs_mask_write" ->
             IF site = 308 THEN "return"
             ELSE IF site = 313 THEN "out" ELSE "mutex_unlock"
      [] handler = "lwkmem_request_store" ->
             IF site \in {637, 645} THEN "out" ELSE "unlock"
      [] handler = "lwkprocesses_show" -> "mutex_unlock"
      [] OTHER -> "out"

\* Whether the code of the handler from label on calls mutex_unlock before
\* it returns.
unlocks(handler, label) ==
    CASE label = "return" -> FALSE
      [] label = "mutex_unlock" -> TRUE
      [] label = "unlock" -> TRUE
      [] label = "out" ->
             handler \in {"lwkmem_domain_info_store", "lwk_config_store",
                          "lwk_config_show"}

\* Everything but the mutex and the tasks.
stateVars ==
    <<partVars, cpu_online_mask, ctlVars, cbVars, mos_process,
      lwkcpus_sequence_writer, op, steps>>

\* Task t calls handler.
handler_call(t, handler) ==
    /\ task[t].at = "user"
    /\ task' = [task EXCEPT ![t] = [at |-> "called", handler |-> handler,
                                    waited |-> FALSE]]
    /\ UNCHANGED <<mos_sysfs_mutex, stateVars>>

\* mutex_lock(&mos_sysfs_mutex) by task t: the task takes the mutex if no
\* task holds it and waits otherwise.
mutex_lock(t) ==
    /\ task[t].at = "called"
    /\ IF mos_sysfs_mutex = 0
       THEN /\ mos_sysfs_mutex' = t
            /\ task' = [task EXCEPT ![t].at = "locked"]
       ELSE /\ task' = [task EXCEPT ![t].at = "mutex_lock",
                                    ![t].waited = TRUE]
            /\ UNCHANGED mos_sysfs_mutex
    /\ UNCHANGED stateVars

\* The waiting task t gets the mutex.
mutex_acquire(t) ==
    /\ task[t].at = "mutex_lock"
    /\ mos_sysfs_mutex = 0
    /\ mos_sysfs_mutex' = t
    /\ task' = [task EXCEPT ![t].at = "locked"]
    /\ UNCHANGED stateVars

\* Task t leaves its handler at one of its sites, before mutex_lock (early)
\* or after it, and runs the code from the label of that site to the
\* return.
handler_return(t, early) ==
    /\ task[t].at = IF early THEN "called" ELSE "locked"
    /\ \E site \in IF early THEN EarlySites(task[t].handler)
                   ELSE LockedSites(task[t].handler) :
           mos_sysfs_mutex' =
               IF unlocks(task[t].handler, exit_label(task[t].handler, site))
               THEN 0 ELSE mos_sysfs_mutex
    /\ task' = [task EXCEPT ![t] = InUser]
    /\ UNCHANGED stateVars

\* ------------------------------------------------------------ environment

\* Highest CPU id that Linux takes online and offline while the model runs;
\* CPU 0 stays online and the CPUs above stay offline.
MaxHotplugCpu == 1

HotplugCpus == 1..MaxHotplugCpu

\* Linux takes CPU c online or offline.
cpu_hotplug(c) ==
    /\ cpu_online_mask' = cpumask_xor(cpu_online_mask, {c})
    /\ Step("cpu_hotplug", 0, <<ToString(c)>>, 0, "", <<>>)
    /\ UNCHANGED <<partVars, ctlVars, mos_process, cbVars,
                   lwkcpus_sequence_writer>>

\* ----------------------------------------------------------- specification

\* After boot: no partition, no reservation, every syscall mask and every
\* per-CPU copy zero, no process record, both callback lists empty, the LWK
\* memory dynamic and without a partition, nothing to show in lwk_config.
Init ==
    /\ lwkcpus_map = {}
    /\ utility_cpus_map = {}
    /\ lwkcpus_reserved_map = {}
    /\ mos_syscall_mask = [c \in CPUs |-> {}]
    /\ lwkcpus_mask = [c \in CPUs |-> {}]
    /\ cpu_online_mask \in {{0} \cup X : X \in SUBSET HotplugCpus}
    /\ mos_process = [p \in Procs |-> NULL]
    /\ mos_process_callbacks = <<>>
    /\ mos_process_option_callbacks = <<>>
    /\ lwkcpus_sequence_writer = [p \in Procs |-> NULL]
    /\ lwkmem_static_enabled = FALSE
    /\ lwkmem_partition = <<>>
    /\ lwkctrl_cpus_spec = <<>>
    /\ lwkctrl_cpu_profile_spec = <<>>
    /\ lwkauto = NoText
    /\ op = NoOp
    /\ steps = 0
    /\ mos_sysfs_mutex = 0
    /\ task = [t \in Tasks |-> InUser]

\* Processes reserve CPUs and exit while the partition is created and
\* returned.
Next ==
    \/ \E param_value \in MainParams : lwk_config_lwkcpus(param_value)
    \/ \E p \in Procs, buf \in RequestBufs : lwkcpus_request_store(p, buf)
    \/ \E buf \in RequestBufs : lwkcpus_reserved_store(buf)
    \/ \E p \in Procs : mos_exit_thread(p)
    \/ \E p \in Procs : mos_clone_thread(p)
    \/ \E c \in HotplugCpus : cpu_hotplug(c)

Spec == Init /\ [][Next]_vars

\* The partition alone: the first lwkcpus= value is any text of ParseParams,
\* the later ones are the values of MainParams, and CPUs go online and
\* offline in between.
NextParse ==
    \/ \E param_value \in ParseParams :
           steps = 0 /\ lwk_config_lwkcpus(param_value)
    \/ \E param_value \in MainParams :
           steps > 0 /\ lwk_config_lwkcpus(param_value)
    \/ \E c \in HotplugCpus : steps > 0 /\ cpu_hotplug(c)

SpecParse == Init /\ [][NextParse]_vars

\* The lwkcpus= value of the partition that the processes of SpecLife use.
LifeParams == { <<"1", ".", "2", "-", "3">> }

\* The requests of the processes of SpecLife.
LifeBufs == { <<"2">>, <<"3">>, <<"2", "-", "3">>, <<",">> }

\* The life of a process record: LWK components register and unregister
\* their callback sets while the system starts, then the partition is
\* created and processes request CPUs, create threads and exit.
NextLife ==
    \/ \E cbs \in CallbackSets \cup {0} :
           steps = 0 /\ mos_register_process_callbacks(cbs)
    \/ \E cbs \in CallbackSets \cup {0} :
           steps = 0 /\ mos_unregister_process_callbacks(cbs)
    \/ \E param_value \in LifeParams : lwk_config_lwkcpus(param_value)
    \/ \E p \in Procs, buf \in LifeBufs : lwkcpus_request_store(p, buf)
    \/ \E p \in Procs : mos_exit_thread(p)
    \/ \E p \in Procs : mos_clone_thread(p)

SpecLife == Init /\ [][NextLife]_vars

\* The CPU sequence: the partition is created, processes request CPUs and
\* write their CPU sequence, each write running to its end before the next
\* operation starts.
NextSeq ==
    \/ \E param_value \in LifeParams : lwk_config_lwkcpus(param_value)
    \/ \E p \in Procs, buf \in LifeBufs : lwkcpus_request_store(p, buf)
    \/ \E p \in Procs, buff \in SequenceBuffs : lwkcpus_sequence_store(p, buff)

SpecSeq == Init /\ [][NextSeq]_vars

\* The requests of the processes of SpecOpt.
OptBufs == { <<"2">> }

\* The options: LWK components register and unregister option callbacks and
\* one callback set while the system starts, then the partition is created
\* and processes request CPUs and write their options.
NextOpt ==
    \/ \E name \in OptionNames, cb \in OptionCallbacks \cup {0} :
           steps = 0 /\ mos_register_option_callback(name, cb)
    \/ \E name \in OptionNames, cb \in OptionCallbacks \cup {0} :
           steps = 0 /\ mos_unregister_option_callback(name, cb)
    \/ \E cbs \in {1} :
           /\ steps = 0 /\ mos_process_callbacks = <<>>
           /\ mos_register_process_callbacks(cbs)
    \/ \E param_value \in LifeParams : lwk_config_lwkcpus(param_value)
    \/ \E p \in Procs, buf \in OptBufs : lwkcpus_request_store(p, buf)
    \/ \E p \in Procs, buff \in OptionBuffs : lwk_options_store(p, buff)

SpecOpt == Init /\ [][NextOpt]_vars

\* The requests and the CPU sequences of the processes of SpecRace.
RaceBufs == { <<"2">>, <<"3">>, <<",">> }
RaceBuffs == { <<"2">>, <<"3", ",", "2">> }

\* The CPU sequence written step by step: the partition is created,
\* processes request CPUs and create threads, and a thread of a process
\* writes the CPU sequence while the other threads go on.  The steps of a
\* write are not counted as operations.
NextRace ==
    \/ \E param_value \in LifeParams : lwk_config_lwkcpus(param_value)
    \/ \E p \in Procs, buf \in RaceBufs :
           thread_free(p) /\ lwkcpus_request_store(p, buf)
    \/ \E p \in Procs : thread_free(p) /\ mos_clone_thread(p)
    \/ \E p \in Procs, buff \in RaceBuffs : sequence_enter(p, buff)
    \/ \E p \in Procs : sequence_pass(p)
    \/ \E p \in Procs : sequence_return(p)

SpecRace == Init /\ [][NextRace]_vars

\* The partition control file: the kernel is booted with dynamic or static
\* LWK memory, then lwk_config is written, processes request CPUs and exit.
NextStore ==
    \/ \E enabled \in {TRUE} : lwkmem_static(enabled)
    \/ \E buff \in StoreBuffs : lwk_config_store(buff)
    \/ \E p \in Procs, buf \in OptBufs : lwkcpus_request_store(p, buf)
    \/ \E p \in Procs : mos_exit_thread(p)

SpecStore == Init /\ [][NextStore]_vars

\* The memory requests: an LWK component registers a callback set while the
\* system starts, then the partition is created and processes request
\* memory and CPUs and exit.
NextMem ==
    \/ \E cbs \in {1} :
           /\ steps = 0 /\ mos_process_callbacks = <<>>
           /\ mos_register_process_callbacks(cbs)
    \/ \E param_value \in LifeParams : lwk_config_lwkcpus(param_value)
    \/ \E p \in Procs, buff \in MemBuffs : lwkmem_request_store(p, buff)
    \/ \E p \in Procs, buf \in OptBufs : lwkcpus_request_store(p, buf)
    \/ \E p \in Procs : mos_exit_thread(p)

SpecMem == Init /\ [][NextMem]_vars

\* The tasks call the handlers that take mos_sysfs_mutex, while the rest of
\* the state stays as it is.
NextMutex ==
    \/ \E t \in Tasks, handler \in Handlers : handler_call(t, handler)
    \/ \E t \in Tasks : mutex_lock(t)
    \/ \E t \in Tasks : mutex_acquire(t)
    \/ \E t \in Tasks : handler_return(t, TRUE)
    \/ \E t \in Tasks : handler_return(t, FALSE)

\* A task that is in a handler runs on: no handler waits for anything but
\* the mutex, and its loops are over the text written or over a list.  A
\* waiting task is given the mutex when it is free again and again: the
\* kernel hands a mutex over to the task that waited longest.
FairMutex ==
    \A t \in Tasks :
        /\ WF_vars(mutex_lock(t))
        /\ WF_vars(handler_return(t, TRUE))
        /\ WF_vars(handler_return(t, FALSE))
        /\ SF_vars(mutex_acquire(t))

SpecMutex == Init /\ [][NextMutex]_vars /\ FairMutex

\* ------------------------------------------------------------------ claims

IsConfig == op.name = "lwk_config_lwkcpus"
IsRequest == op.name = "lwkcpus_request_store"

\* The last operation changed nothing of the partition state and called no
\* partition hook.
Untouched == op.hooks = <<>> /\ PartitionMap = op.pre

\* The last two operations: process P1 was granted A while nothing was
\* reserved, and then another process asked for B, which shares a CPU with A.
C1_Case ==
    /\ IsRequest
    /\ op.prev # NULL
    /\ op.prev.pre.lwkcpus_reserved_map = {}
    /\ op.proc # op.prev.proc
    /\ parsed_request[op.param].rc = 0
    /\ parsed_request[op.prev.param].mask \cap parsed_request[op.param].mask # {}

\* C1 as stated: when P1 was granted A and another process P2 then asks for a
\* B that shares a CPU with A, the second request fails with -EBUSY and
\* lwkcpus_reserved_map is exactly A.
C1_Original ==
    C1_Case =>
        /\ op.rc = -EBUSY
        /\ lwkcpus_reserved_map = parsed_request[op.prev.param].mask

\* C1 amended: the second request fails and lwkcpus_reserved_map is exactly A;
\* the error is -EBUSY when B lies within the LWK CPUs and -EINVAL when B
\* names a CPU that is not an LWK CPU, which is checked first.
C1_Amended ==
    C1_Case =>
        /\ op.rc = IF parsed_request[op.param].mask \subseteq lwkcpus_map
                   THEN -EBUSY ELSE -EINVAL
        /\ lwkcpus_reserved_map = parsed_request[op.prev.param].mask

C1_Witness == C1_Case /\ op.rc = -EBUSY

\* C2 as stated: lwkcpus_reserved_map is always a subset of lwkcpus_map.
C2_Claim == lwkcpus_reserved_map \subseteq lwkcpus_map

\* C3: lwkcpus_map and utility_cpus_map never share a CPU.
C3_Disjoint == lwkcpus_map \cap utility_cpus_map = {}

C3_Witness ==
    IsConfig /\ op.rc = 0 /\ lwkcpus_map # {} /\ utility_cpus_map # {}

\* A non-empty lwkcpus= value was written while LWK CPUs were configured.
C4_Case == IsConfig /\ op.param # <<>> /\ op.pre.lwkcpus_map # {}

\* C4: writing a non-empty lwkcpus= value while LWK CPUs are configured fails
\* with the "modify existing configuration" error, calls no hook and leaves
\* the three maps, the syscall masks and the per-CPU copies as they were; and
\* no operation takes a non-empty lwkcpus_map to anything but itself or the
\* empty set.
C4_Locked ==
    /\ C4_Case =>
           /\ op.rc < 0
           /\ op.ras = "Attempt to modify existing LWKCPU configuration."
           /\ Untouched
    /\ op.pre.lwkcpus_map # {} => lwkcpus_map \in {op.pre.lwkcpus_map, {}}

C4_Witness == C4_Case /\ op.rc < 0

\* The last two operations: a partition was created from a non-empty value S
\* and then returned, both with success.
C5_Case == IsConfig /\ op.param = <<>> /\ op.rc = 0 /\ op.prev # NULL

\* C5 as stated: creating a partition and returning it restores lwkcpus_map,
\* utility_cpus_map, lwkcpus_reserved_map and every CPU's syscall mask to what
\* they were before the create.
C5_Original ==
    C5_Case =>
        /\ lwkcpus_map = op.prev.pre.lwkcpus_map
        /\ utility_cpus_map = op.prev.pre.utility_cpus_map
        /\ lwkcpus_reserved_map = op.prev.pre.lwkcpus_reserved_map
        /\ mos_syscall_mask = op.prev.pre.mos_syscall_mask

\* C5 amended: creating a partition and returning it restores lwkcpus_map,
\* utility_cpus_map and lwkcpus_reserved_map; the syscall mask of every CPU
\* that was an LWK CPU of the partition holds that CPU alone afterwards
\* (whatever it held before the create), and the syscall mask of every other
\* CPU is what it was before the create.
C5_Amended ==
    C5_Case =>
        /\ lwkcpus_map = op.prev.pre.lwkcpus_map
        /\ utility_cpus_map = op.prev.pre.utility_cpus_map
        /\ lwkcpus_reserved_map = op.prev.pre.lwkcpus_reserved_map
        /\ \A c \in CPUs :
               mos_syscall_mask[c] =
                   IF c \in op.pre.lwkcpus_map THEN {c}
                   ELSE op.prev.pre.mos_syscall_mask[c]

C5_Witness == C5_Case /\ utility_cpus_map = {} /\ op.pre.utility_cpus_map # {}

\* A non-empty lwkcpus= value was written whose groups all parse, none with
\* several targets, and whose LWK CPUs include a CPU that is online.
C6_Case ==
    /\ IsConfig
    /\ op.param # <<>>
    /\ validated[op.param].ras = ""
    /\ validated[op.param].new_lwkcpus \cap cpu_online_mask # {}

\* C6: an lwkcpus= value whose LWK CPUs include an online CPU is rejected, no
\* hook is called, and the maps, the syscall masks and the per-CPU copies are
\* as they were; when no partition exists the error is the LWK/online overlap.
C6_OnlineRejected ==
    C6_Case =>
        /\ op.rc < 0
        /\ Untouched
        /\ op.pre.lwkcpus_map = {} =>
               op.ras = "Overlap detected. LWK CPUs / Online CPUs."

C6_Witness == C6_Case /\ op.pre.lwkcpus_map = {} /\ op.rc < 0

\* The groups of the last lwkcpus= value.
OpGroups == parsed_groups[op.param]

\* A non-empty lwkcpus= value was accepted.
C7_Case == IsConfig /\ op.param # <<>> /\ op.rc = 0

\* What C7 says of the two sets: lwkcpus_map is the union of the groups' LWK
\* CPU lists and utility_cpus_map the union of their target lists.
C7_Sets ==
    /\ lwkcpus_map = UNION {OpGroups[i].from.mask : i \in DOMAIN OpGroups}
    /\ utility_cpus_map = UNION {OpGroups[i].to.mask : i \in DOMAIN OpGroups}

\* What C7 says of the example 1.2-7,9:10.11,13,14.
C7_Example ==
    op.param = ExampleParam =>
        /\ lwkcpus_map = {2, 3, 4, 5, 6, 7, 9, 11, 13, 14}
        /\ {c \in CPUs : mos_syscall_mask[c] = {1}} = {2, 3, 4, 5, 6, 7, 9}
        /\ {c \in CPUs : mos_syscall_mask[c] = {10}} = {11, 13, 14}

C8_Case ==
    /\ IsConfig
    /\ \E i \in DOMAIN OpGroups :
           /\ OpGroups[i].to.rc = 0
           /\ OpGroups[i].from.rc = 0
           /\ Cardinality(OpGroups[i].to.mask) > 1
           /\ OpGroups[i].from.mask # {}

\* C8: a value with a group of several targets and a non-empty LWK CPU list
\* is rejected wherever the group stands, no hook is called and nothing
\* changes; when no partition exists and every group parses, the error is
\* the "more than one syscall target" one.
C8_Ambiguous ==
    C8_Case =>
        /\ op.rc < 0
        /\ Untouched
        /\ (/\ op.pre.lwkcpus_map = {}
            /\ \A i \in DOMAIN OpGroups :
                   OpGroups[i].to.rc = 0 /\ OpGroups[i].from.rc = 0)
           => op.ras = "More than one syscall target CPU specified."

C8_Witness ==
    /\ C8_Case
    /\ Len(OpGroups) > 1
    /\ Cardinality(OpGroups[1].to.mask) <= 1
    /\ op.ras = "More than one syscall target CPU specified."

\* The last operation called lwkcpu_partition_create and it failed.
C9_Case ==
    /\ IsConfig
    /\ op.hooks # <<>>
    /\ op.hooks[Len(op.hooks)].hook = "lwkcpu_partition_create"
    /\ op.hooks[Len(op.hooks)].rc # 0

\* C9: when lwkcpu_partition_create fails, lwk_config_lwkcpus fails and
\* lwkcpus_map and utility_cpus_map keep their values; and whenever a
\* non-empty value changed either set, the create hook was called and
\* returned 0.
C9_HookFailed ==
    /\ C9_Case =>
           /\ op.rc < 0
           /\ lwkcpus_map = op.pre.lwkcpus_map
           /\ utility_cpus_map = op.pre.utility_cpus_map
    /\ (/\ IsConfig
        /\ op.param # <<>>
        /\ \/ lwkcpus_map # op.pre.lwkcpus_map
           \/ utility_cpus_map # op.pre.utility_cpus_map)
       => /\ op.hooks # <<>>
          /\ op.hooks[Len(op.hooks)] = Hook("lwkcpu_partition_create", 0)

C9_Witness == C9_Case /\ op.rc < 0

\* C10 as stated: returning the CPUs when none are configured succeeds,
\* calls no hook and leaves both sets empty.
C10_Claim ==
    (IsConfig /\ op.param = <<>> /\ op.pre.lwkcpus_map = {})
    => /\ op.rc = 0
       /\ op.hooks = <<>>
       /\ lwkcpus_map = {}
       /\ utility_cpus_map = {}

IsSequence == op.name = "lwkcpus_sequence_store"

\* The items of the text written by the last operation, split at the commas.
SequenceItems == strsep(op.param, ",")

\* The ids that the text of the last operation lists, in the order listed.
SequenceIds == [i \in DOMAIN SequenceItems |-> kstrtouint(SequenceItems[i]).value]

\* The last operation was a write of a list of ids to lwkcpus_sequence by a
\* process that holds a CPU sequence array.
C11_Case ==
    /\ IsSequence
    /\ mos_process[op.proc] # NULL
    /\ mos_process[op.proc].cpu_list # 0
    /\ \A i \in DOMAIN SequenceItems : kstrtouint(SequenceItems[i]).rc = 0

\* C11: for a process holding n claimed CPUs, a write of a list of k ids to
\* lwkcpus_sequence fails with "too few" or "too many" whenever k differs
\* from n, and with k = n it succeeds and leaves the stored sequence equal to
\* the listed ids, position by position.
C11_SequenceLength ==
    C11_Case =>
        IF Len(SequenceIds) = mos_process[op.proc].num_lwkcpus
        THEN /\ op.rc = Len(op.param)
             /\ mos_process[op.proc].lwkcpus_sequence = SequenceIds
        ELSE /\ op.rc = -EINVAL
             /\ op.ras \in
                    {"Too few CPUs were provided in an LWK sequence list.",
                     "Too many CPUs were provided in an LWK sequence list."}
             /\ (op.ras = "Too few CPUs were provided in an LWK sequence list.")
                    = (Len(SequenceIds) < mos_process[op.proc].num_lwkcpus)

\* A process holding CPUs 2 and 3 wrote the sequence 3,2 and reads it back.
C11_Witness ==
    /\ C11_Case
    /\ mos_process[op.proc].num_lwkcpus = 2
    /\ op.rc > 0
    /\ mos_process[op.proc].lwkcpus_sequence = <<3, 2>>

IsOptions == op.name = "lwk_options_store"

\* The strings of text from position name up to the first empty string.
RECURSIVE batch_strings(_, _)
batch_strings(text, name) ==
    IF name > Len(text) \/ text[name] = Nul THEN <<>>
    ELSE LET j == CHOOSE j \in name..Len(text) :
                      text[j] = Nul /\ \A k \in name..(j - 1) : text[k] # Nul
         IN  <<SubSeq(text, name, j - 1)>> \o batch_strings(text, j + 1)

\* The option names of the batch written by the last operation.
OpBatch ==
    LET text == op.param \o <<Nul>>
        strings == batch_strings(text, IF text[1] = Nul THEN 2 ELSE 1)
    IN  [i \in DOMAIN strings |->
            IF strchr(strings[i], "=") = 0 THEN strings[i]
            ELSE SubSeq(strings[i], 1, strchr(strings[i], "=") - 1)]

\* Option i of the batch has no registered handler.
Unhandled(i) ==
    \A k \in DOMAIN mos_process_option_callbacks :
        mos_process_option_callbacks[k].name # OpBatch[i]

C12_Case ==
    /\ IsOptions
    /\ mos_process[op.proc] # NULL
    /\ \E i \in DOMAIN OpBatch : Unhandled(i)

\* C12: a write to lwk_options by an LWK process whose batch contains, at
\* any position, an option name that no registered option callback carries
\* returns -EINVAL, and no mos_process_start callback is called for it.
C12_UnknownOption ==
    C12_Case =>
        /\ op.rc = -EINVAL
        /\ \A k \in DOMAIN op.hooks : op.hooks[k].hook # "mos_process_start"

\* The unknown option is the second of the batch, the first one was handled
\* successfully, and a callback set with a mos_process_start callback is
\* registered.
C12_Witness ==
    /\ C12_Case
    /\ Len(OpBatch) = 2 /\ Unhandled(2) /\ ~Unhandled(1)
    /\ Len(op.hooks) = 1 /\ op.hooks[1].hook = "option" /\ op.hooks[1].rc = 0
    /\ op.ras = "No option callback found"
    /\ \E k \in DOMAIN mos_process_callbacks :
           implements(mos_process_callbacks[k].callbacks, "mos_process_start")

IsExit == op.name = "mos_exit_thread"

\* The last operation was the exit of the last thread of a process that had
\* a record.
LastExit ==
    /\ IsExit
    /\ op.ras = ""
    /\ mos_process[op.proc] = NULL

\* C13: after the last thread of a process exited, the record of the process
\* is gone and no CPU that the process was granted during its life, by one
\* request or by several, is left in lwkcpus_reserved_map (unless another
\* process holds it by now).
C13_Claim ==
    LastExit =>
        \A c \in op.claimed[op.proc] :
            c \in lwkcpus_reserved_map =>
                \E q \in Procs :
                    mos_process[q] # NULL /\ c \in mos_process[q].lwkcpus

RECURSIVE Implementing(_, _, _)
\* The registrations (by serial) from entry i of list on whose callback set
\* has a callback hook, in list order.
Implementing(list, hook, i) ==
    IF i > Len(list) THEN <<>>
    ELSE (IF implements(list[i].callbacks, hook)
          THEN <<list[i].serial>> ELSE <<>>)
         \o Implementing(list, hook, i + 1)

RECURSIVE Called(_, _, _)
\* The registrations (by serial) whose callback hook is called in hooks from
\* call i on, in the order of the calls.
Called(hooks, hook, i) ==
    IF i > Len(hooks) THEN <<>>
    ELSE (IF hooks[i].hook = hook THEN <<hooks[i].serial>> ELSE <<>>)
         \o Called(hooks, hook, i + 1)

\* The last operation was a thread exit of a process that had a record.
C14_Case == IsExit /\ op.ras = ""

\* A thread of a process with a record exits: mos_thread_exit of every
\* registered callback set that has one is called; the mos_process_exit
\* callbacks are called if and only if this exit brings alive to zero, each
\* once and all after the mos_thread_exit calls; and only then are the CPUs
\* of the process taken out of lwkcpus_reserved_map and the record freed.
C14_Exit ==
    /\ op'.name = "mos_exit_thread"
    /\ mos_process[op'.proc] # NULL
    => /\ Called(op'.hooks, "mos_thread_exit", 1) =
              Implementing(mos_process_callbacks, "mos_thread_exit", 1)
       /\ Called(op'.hooks, "mos_process_exit", 1) =
              IF mos_process[op'.proc].alive = 1
              THEN Implementing(mos_process_callbacks, "mos_process_exit", 1)
              ELSE <<>>
       /\ \A i, j \in DOMAIN op'.hooks :
              /\ op'.hooks[i].hook = "mos_thread_exit"
              /\ op'.hooks[j].hook = "mos_process_exit"
              => i < j
       /\ IF mos_process[op'.proc].alive = 1
          THEN /\ mos_process'[op'.proc] = NULL
               /\ lwkcpus_reserved_map' \cap mos_process[op'.proc].lwkcpus = {}
          ELSE /\ mos_process'[op'.proc] # NULL
               /\ mos_process'[op'.proc].alive =
                      mos_process[op'.proc].alive - 1
               /\ lwkcpus_reserved_map' = lwkcpus_reserved_map

C14_WitnessEarly ==
    /\ C14_Case
    /\ mos_process[op.proc] # NULL
    /\ Len(Called(op.hooks, "mos_thread_exit", 1)) >= 1


\* Whether the serials of s, which number the registrations in the order
\* they were made, ascend.
Ascending(s) == \A i, j \in DOMAIN s : i < j => s[i] < s[j]

LifecycleHooks ==
    {"mos_process_init", "mos_process_start", "mos_thread_exit",
     "mos_process_exit"}

\* C16: the callbacks of one kind that an operation calls are called in
\* registration order, the callback set registered earliest first: the
\* mos_process_init callbacks when a record is created, and likewise
\* mos_process_start, mos_thread_exit and mos_process_exit.
C16_Claim ==
    \A hook \in LifecycleHooks : Ascending(Called(op.hooks, hook, 1))

\* The last operation was the request of a process without a record, and a
\* mos_process_init callback failed.
C20_Case ==
    /\ IsRequest
    /\ op.hooks # <<>>
    /\ callback_failed(op.hooks)

\* C20: when the first request of a process fails because a
\* mos_process_init callback reports a failure, the request returns -ENOMEM,
\* the process has no record, and lwkcpus_reserved_map is what it was before
\* the request.
C20_Claim ==
    C20_Case =>
        /\ op.rc = -ENOMEM
        /\ mos_process[op.proc] = NULL
        /\ lwkcpus_reserved_map = op.pre.lwkcpus_reserved_map

\* C15: when several option callbacks are registered under one name, a write
\* to lwk_options that names the option calls the one registered first, and
\* only that one.
C15_Claim ==
    IsOptions =>
        \A k \in DOMAIN op.hooks :
            op.hooks[k].hook = "option" =>
                \A i \in DOMAIN mos_process_option_callbacks :
                    mos_process_option_callbacks[i].name = op.hooks[k].name
                    => op.hooks[k].serial <=
                           mos_process_option_callbacks[i].serial

\* C19: an lwk_config_lwkcpus that fails, in validation or because a
\* partition hook failed, leaves mos_syscall_mask as it was before the
\* operation.
C19_Claim ==
    IsConfig /\ op.rc # 0 => mos_syscall_mask = op.pre.mos_syscall_mask

\* A step leaves alone the record of every process that has a write of the
\* CPU sequence in progress, unless it is a step of that write.
C18_Exclusive ==
    \A p \in Procs :
        /\ lwkcpus_sequence_writer[p] # NULL
        /\ mos_process'[p] # mos_process[p]
        => /\ op'.proc = p
           /\ op'.name \in {"lwkcpus_sequence_pass", "lwkcpus_sequence_store"}

\* C18: every control operation runs from its first read to its last write
\* of the partition state and of the process records without another one
\* in between; here: no other operation changes a record between the steps
\* of a CPU sequence write to that record.
C18_Claim == [][C18_Exclusive]_vars

\* The value that the text buff gives for keyword: the part after the '=' of
\* the last word that starts with the keyword and '=', up to a newline;
\* NoText when no word does.
Given(buff, keyword) ==
    LET words == strsep(buff, " ")
        hits == {i \in DOMAIN words :
                     Len(words[i]) >= 2 /\ words[i][1] = keyword
                                        /\ words[i][2] = "="}
    IN  IF hits = {} THEN NoText
        ELSE LET w == words[CHOOSE i \in hits : \A j \in hits : j <= i]
                 v == SubSeq(w, 3, Len(w))
                 n == {i \in DOMAIN v : v[i] = "\n"}
             IN  IF n = {} THEN v
                 ELSE SubSeq(v, 1, (CHOOSE i \in n : \A j \in n : i <= j) - 1)

\* The text asks to create one of the two partitions and to delete the
\* other one.
Mismatched(buff) ==
    /\ Given(buff, "lwkcpus") # NoText
    /\ Given(buff, "lwkmem") # NoText
    /\ (Given(buff, "lwkcpus") = <<>>) # (Given(buff, "lwkmem") = <<>>)

\* A write to lwk_config with mismatched intents, the LWK memory being
\* dynamic, returns -EINVAL, calls no partition hook, neither for the CPUs
\* nor for the memory, and leaves the partition state and the memory
\* partition as they were.
C17_Store ==
    /\ op'.name = "lwk_config_store"
    /\ ~lwkmem_static_enabled
    /\ Mismatched(op'.param)
    => /\ op'.rc = -EINVAL
       /\ op'.hooks = <<>>
       /\ PartitionMap' = PartitionMap
       /\ lwkmem_partition' = lwkmem_partition

\* C17: with dynamic memory partitioning, a write to lwk_config that
\* combines a CPU create with a memory delete, or a CPU delete with a memory
\* create, fails without calling the CPU or the memory partition operation,
\* so that the partition state and the memory partition are unchanged.
C17_MismatchedIntent == [][C17_Store]_vars

\* Both partitions exist and a write asks to delete the CPUs and to create
\* memory; it was refused.
C17_Witness ==
    /\ op.name = "lwk_config_store"
    /\ ~lwkmem_static_enabled
    /\ Mismatched(op.param)
    /\ Given(op.param, "lwkcpus") = <<>>
    /\ lwkcpus_map # {}
    /\ lwkmem_partition # <<>>
    /\ op.rc = -EINVAL

\* The CPUs that the record of process p holds; none without a record.
Held(p) == IF mos_process[p] = NULL THEN {} ELSE mos_process[p].lwkcpus

\* A granted request adds its CPUs to the CPUs of the process and to the
\* reserved CPUs, and the sequence lists the CPUs of the process in ascending
\* order.
C21_Granted ==
    /\ op'.name = "lwkcpus_request_store"
    /\ op'.rc >= 0
    => /\ mos_process'[op'.proc].lwkcpus =
              Held(op'.proc) \cup cpulist_parse(op'.param).mask
       /\ lwkcpus_reserved_map' =
              lwkcpus_reserved_map \cup cpulist_parse(op'.param).mask
       /\ mos_process'[op'.proc].lwkcpus_sequence =
              for_each_cpu(mos_process'[op'.proc].lwkcpus)
       /\ mos_process'[op'.proc].num_lwkcpus =
              Cardinality(mos_process'[op'.proc].lwkcpus)

\* C21: every granted request, the first of a process and the later ones,
\* adds the request to the CPUs of the process and to lwkcpus_reserved_map,
\* and the CPU sequence is derived anew from the CPUs of the process, in
\* ascending order and of their number.
C21_Claim == [][C21_Granted]_vars

\* A write to lwkcpus_sequence that fails leaves the CPU sequence of the
\* record as it was.
C22_Failed ==
    /\ op'.name = "lwkcpus_sequence_store"
    /\ op'.rc < 0
    /\ mos_process[op'.proc] # NULL
    => mos_process'[op'.proc].lwkcpus_sequence =
           mos_process[op'.proc].lwkcpus_sequence

\* C22: a write to lwkcpus_sequence that fails, for too few ids, too many
\* ids or a malformed id, leaves the stored CPU sequence exactly as it was:
\* no entry is overwritten by a rejected write.
C22_Claim == [][C22_Failed]_vars

\* C23: after every granted request of a process, the utilcpus of its
\* record is utility_cpus_map as it is at that time, also when the process
\* was granted a request before, under another partition.
C23_Claim ==
    IsRequest /\ op.rc >= 0 =>
        mos_process[op.proc].utilcpus = utility_cpus_map

\* The text gives both lwkcpus= and lwkmem=, to create both partitions or to
\* delete both.
Combined(buff) ==
    /\ Given(buff, "lwkcpus") # NoText
    /\ Given(buff, "lwkmem") # NoText
    /\ ~Mismatched(buff)

\* A combined write that fails leaves the LWK CPUs, the utility CPUs and the
\* memory partition as they were.
C24_Failed ==
    /\ op'.name = "lwk_config_store"
    /\ ~lwkmem_static_enabled
    /\ Combined(op'.param)
    /\ op'.rc < 0
    => /\ lwkcpus_map' = lwkcpus_map
       /\ utility_cpus_map' = utility_cpus_map
       /\ lwkmem_partition' = lwkmem_partition

\* C24: a write to lwk_config for both the CPUs and the memory never leaves
\* one of the two applied: when the first of the two operations succeeds and
\* the second fails, the write fails and both the CPU partition and the
\* memory partition are as they were before.
C24_Claim == [][C24_Failed]_vars

IsMemRequest == op.name = "lwkmem_request_store"

\* C25: the first request of a process for a resource, CPUs or memory,
\* creates its record and every later request uses that record: after a
\* granted request for memory the process has a record, the one that the
\* request created with the mos_process_init callbacks or the one that it
\* had.
C25_Claim ==
    IsMemRequest /\ op.rc >= 0 => mos_process[op.proc] # NULL

\* The calls of option callbacks among the calls of the last operation.
OptionCalls == {k \in DOMAIN op.hooks : op.hooks[k].hook = "option"}

\* The calls of mos_process_start callbacks among them.
StartCalls == {k \in DOMAIN op.hooks : op.hooks[k].hook = "mos_process_start"}

C26_Case == IsOptions /\ mos_process[op.proc] # NULL

\* C26: a write to lwk_options by an LWK process calls the option callbacks
\* in the order of the options in the batch, one per option and before any
\* mos_process_start callback; a callback that returns non-zero, of an
\* option or mos_process_start, is the last call of the write, which
\* returns -EINVAL; and mos_process_start callbacks are called only when the
\* callback of every option of the batch was called and returned 0.
C26_Batch ==
    C26_Case =>
        /\ OptionCalls = 1..Cardinality(OptionCalls)
        /\ Cardinality(OptionCalls) <= Len(OpBatch)
        /\ \A k \in OptionCalls : op.hooks[k].name = OpBatch[k]
        /\ \A k \in DOMAIN op.hooks :
               op.hooks[k].rc # 0 => k = Len(op.hooks) /\ op.rc = -EINVAL
        /\ StartCalls # {} =>
               /\ Cardinality(OptionCalls) = Len(OpBatch)
               /\ \A k \in OptionCalls : op.hooks[k].rc = 0

\* The callback of the first of two registered options failed, with a
\* mos_process_start callback registered: the second callback and the
\* mos_process_start callback were not called.
C26_Witness ==
    /\ C26_Case
    /\ Len(OpBatch) = 2 /\ ~Unhandled(1) /\ ~Unhandled(2)
    /\ Len(op.hooks) = 1 /\ op.hooks[1].hook = "option" /\ op.hooks[1].rc # 0
    /\ op.rc = -EINVAL
    /\ \E k \in DOMAIN mos_process_callbacks :
           implements(mos_process_callbacks[k].callbacks, "mos_process_start")

\* Both options of a batch succeeded and the mos_process_start callback
\* failed.
C26_WitnessStart ==
    /\ C26_Case
    /\ Len(OpBatch) = 2
    /\ Len(op.hooks) = 3 /\ OptionCalls = {1, 2} /\ StartCalls = {3}
    /\ op.hooks[3].rc # 0
    /\ op.rc = -EINVAL

\* C27: no CPU is in the lwkcpus of the records of two processes.
C27_Claim ==
    \A p \in Procs, q \in Procs :
        p # q /\ mos_process[p] # NULL /\ mos_process[q] # NULL =>
            mos_process[p].lwkcpus \cap mos_process[q].lwkcpus = {}

\* C28: lwkcpus_reserved_map is the union of the lwkcpus of the records of
\* the processes, after every operation; the exit of the last thread of a
\* process neither adds a CPU to the map nor leaves in it a CPU that no
\* record holds.
C28_Claim ==
    lwkcpus_reserved_map = UNION {Held(p) : p \in Procs}

\* C29: after every write of lwkcpus=, one that failed included, the copy of
\* the LWK CPUs that each CPU has in lwkcpus_mask equals lwkcpus_map.
C29_Claim == \A c \in CPUs : lwkcpus_mask[c] = lwkcpus_map

\* No task holds mos_sysfs_mutex unless it is between mutex_lock and the
\* mutex_unlock of its handler.
Released ==
    /\ \A t \in Tasks : task[t].at = "locked" <=> mos_sysfs_mutex = t
    /\ mos_sysfs_mutex \in Tasks \cup {0}

\* C30: every handler that takes mos_sysfs_mutex releases it on every path
\* to its return, so that a task that has returned does not hold it, and a
\* task that waits in mutex_lock gets the mutex in the end.
C30_Mutex ==
    /\ []Released
    /\ \A t \in Tasks : (task[t].at = "mutex_lock") ~> (mos_sysfs_mutex = t)

\* A task that had to wait holds the mutex while another task waits.
C30_Witness ==
    \E t \in Tasks, u \in Tasks :
        /\ mos_sysfs_mutex = t
        /\ task[t].waited
        /\ task[t].handler = "lwk_config_store"
        /\ task[u].at = "mutex_lock"
        /\ task[u].handler = "lwkmem_request_store"

====
